---- MODULE Spec2Model ----
(***************************************************************************)
(* A model of phodav's lock manager, `If:' evaluator and WebDAV write      *)
(* handlers (src/libphodav) and of the spice-webdavd byte-stream           *)
(* multiplexer (src/bin, src/spice).                                       *)
(*                                                                         *)
(* Strings that the code takes apart (request paths, registry keys) are    *)
(* sequences of one-character strings, so that remove_trailing, g_strsplit *)
(* and g_build_path are computed as the code computes them.                *)
(***************************************************************************)
EXTENDS Integers, Sequences, FiniteSets, TLC

\* ------------------------------------------------------------------ bounds
\* Number of lock tokens g_uuid_string_random hands out in one run.
MaxLocks == 2

\* Conditions in one list, lists in one If header, conditions in one header.
MaxConds == 2

MaxLists == 2

MaxIfSize == 3

\* TCP sessions the daemon accepts, bytes the peer of a session sends before
\* it closes, I/O operations that fail in one run, bytes a write_all has
\* written when it fails.
MaxClients == 2

MaxBytes == 2

MaxFailures == 1

MaxPartial == 10
MaxInstructions == 2

\* ------------------------------------------------------------ path strings
\* The request paths (and tagged URLs, and Destination paths) a client sends.
\* server_callback only requires a leading '/': trailing and doubled slashes
\* reach the handlers as they are.
RawPaths ==
  { <<"/">>,
    <<"/", "a">>,
    <<"/", "a", "/">>,
    <<"/", "a", "/", "b">>,
    <<"/", "a", "/", "/", "b">>,
    <<"/", "b">> }

\* remove_trailing (str, c): drop every trailing c.
RECURSIVE remove_trailing(_, _)
remove_trailing(str, c) ==
  IF Len(str) > 0 /\ str[Len(str)] = c
    THEN remove_trailing(SubSeq(str, 1, Len(str) - 1), c)
    ELSE str

\* g_strsplit (path, "/", -1): the pieces between the separators, the empty
\* ones included.
RECURSIVE g_strsplit(_)
g_strsplit(str) ==
  IF \A i \in 1..Len(str) : str[i] # "/"
    THEN <<str>>
    ELSE LET k == CHOOSE i \in 1..Len(str) :
                    str[i] = "/" /\ \A j \in 1..(i - 1) : str[j] # "/"
         IN  <<SubSeq(str, 1, k - 1)>> \o g_strsplit(SubSeq(str, k + 1, Len(str)))

\* g_build_path ("/", partial, elem, NULL) for an elem without separators:
\* exactly one separator between the two, the leading one of partial kept.
g_build_path(partial, elem) ==
  remove_trailing(partial, "/") \o <<"/">> \o elem

\* The keys foreach_parent_path looks up for `path', in the order it looks
\* them up: partial starts as "/" and is looked up only after a non-empty
\* segment has been appended to it.
RECURSIVE ParentKeysFrom(_, _)
ParentKeysFrom(partial, pathv) ==
  IF pathv = <<>> THEN <<>>
  ELSE IF Head(pathv) = <<>> THEN ParentKeysFrom(partial, Tail(pathv))
  ELSE LET tmp == g_build_path(partial, Head(pathv))
       IN  <<tmp>> \o ParentKeysFrom(tmp, Tail(pathv))

ParentKeys(path) == ParentKeysFrom(<<"/">>, g_strsplit(path))

\* The key get_path files a path under: the path without trailing slashes.
PathKey(path) == remove_trailing(path, "/")

\* Every key the registry can hold.
Keys == { PathKey(p) : p \in RawPaths }
          \cup UNION { { ParentKeys(p)[i] : i \in 1..Len(ParentKeys(p)) } : p \in RawPaths }

\* ------------------------------------------------------------- file system
\* g_file_get_child (root, path + 1): the file a request path names, as the
\* list of its non-empty segments (GLocalFile canonicalises the name).
RECURSIVE NonEmpty(_)
NonEmpty(pathv) ==
  IF pathv = <<>> THEN <<>>
  ELSE IF Head(pathv) = <<>> THEN NonEmpty(Tail(pathv))
  ELSE <<Head(pathv)>> \o NonEmpty(Tail(pathv))

FileOf(path) == NonEmpty(g_strsplit(path))

\* The files of the model: the ones a request path names, and the one a
\* recursive copy of /a onto /b adds.
Files == { FileOf(p) : p \in RawPaths } \cup { << <<"b">>, <<"b">> >> }

RootFile == <<>>

ParentFile(f) == SubSeq(f, 1, Len(f) - 1)

\* What the parent of f is: the share root lies in a directory of the host.
ParentKind(tree, f) == IF f = RootFile THEN "dir" ELSE tree[ParentFile(f)]

\* f is g or lies below g.
IsUnder(f, g) == Len(g) <= Len(f) /\ SubSeq(f, 1, Len(g)) = g

\* g_file_create (file, G_FILE_CREATE_NONE): "exists" (G_IO_ERROR_EXISTS),
\* "error" (any other error: the parent is missing or is no directory),
\* or "created".
g_file_create(tree, f) ==
  IF tree[f] # "none" THEN "exists"
  ELSE IF ParentKind(tree, f) # "dir" THEN "error"
  ELSE "created"

\* A GIO call answers [err, tree]: err is "" on success, else the GIOError.
Done(tree)        == [err |-> "", tree |-> tree]
Failed(err, tree) == [err |-> err, tree |-> tree]

\* The error open/rename report for a name whose parent is no directory.
ParentError(tree, f) ==
  IF ParentKind(tree, f) = "none" THEN "not-found" ELSE "not-directory"

\* f as it is named once the tree at src has become the tree at dst.
Rebase(f, src, dst) == dst \o SubSeq(f, Len(src) + 1, Len(f))

\* The tree without f and everything below it.
RemoveTree(tree, f) ==
  [g \in Files |-> IF IsUnder(g, f) THEN "none" ELSE tree[g]]

\* The tree with the tree at src also at dst.
CopyTree(tree, src, dst) ==
  [g \in Files |->
     IF IsUnder(g, dst) /\ Rebase(g, dst, src) \in Files
          /\ tree[Rebase(g, dst, src)] # "none"
       THEN tree[Rebase(g, dst, src)] ELSE tree[g]]

\* g_file_replace: the file is created or truncated.
g_file_replace(tree, f) ==
  IF tree[f] = "dir" THEN Failed("is-directory", tree)
  ELSE IF tree[f] = "none" /\ ParentKind(tree, f) # "dir"
    THEN Failed(ParentError(tree, f), tree)
  ELSE Done([tree EXCEPT ![f] = "file"])

\* g_file_make_directory.
g_file_make_directory(tree, f) ==
  IF tree[f] # "none" THEN Failed("exists", tree)
  ELSE IF ParentKind(tree, f) # "dir" THEN Failed(ParentError(tree, f), tree)
  ELSE Done([tree EXCEPT ![f] = "dir"])

\* g_file_make_directory_with_parents: the missing ancestors are made too.
g_file_make_directory_with_parents(tree, f) ==
  IF tree[f] # "none" THEN Failed("exists", tree)
  ELSE IF \E g \in Files : g # f /\ IsUnder(f, g) /\ tree[g] = "file"
    THEN Failed("not-directory", tree)
  ELSE Done([g \in Files |-> IF IsUnder(f, g) THEN "dir" ELSE tree[g]])

\* g_file_copy, which has no native copy for local files: the fallback of
\* GIO reads the source and replaces or creates the target, and does not
\* copy a directory.
g_file_copy(tree, src, dst, overwrite) ==
  IF tree[src] = "none" THEN Failed("not-found", tree)
  ELSE IF tree[src] = "dir" THEN
    IF tree[dst] = "none" THEN Failed("would-recurse", tree)
    ELSE IF ~overwrite THEN Failed("exists", tree)
    ELSE IF tree[dst] = "dir" THEN Failed("would-merge", tree)
    ELSE Failed("would-recurse", tree)
  ELSE IF tree[dst] # "none" /\ ~overwrite THEN Failed("exists", tree)
  ELSE g_file_replace(tree, dst)

\* g_file_move of a local file: the checks on the target, then rename(2).
g_file_move(tree, src, dst, overwrite) ==
  IF tree[src] = "none" THEN Failed("not-found", tree)
  ELSE IF tree[dst] # "none" /\ ~overwrite THEN Failed("exists", tree)
  ELSE IF tree[dst] = "dir" THEN
    Failed(IF tree[src] = "dir" THEN "would-merge" ELSE "is-directory", tree)
  ELSE LET unlinked == IF tree[src] = "dir" /\ tree[dst] = "file"
                         THEN [tree EXCEPT ![dst] = "none"] ELSE tree
       IN  IF src = dst THEN Done(unlinked)
           ELSE IF IsUnder(dst, src) THEN Failed("invalid-filename", unlinked)
           ELSE IF ParentKind(unlinked, dst) # "dir"
             THEN Failed(ParentError(unlinked, dst), unlinked)
           ELSE Done(RemoveTree(CopyTree(RemoveTree(unlinked, dst), src, dst), src))

\* ------------------------------------------------------------ lock manager
ScopeNone      == "none"
ScopeExclusive == "exclusive"
ScopeShared    == "shared"

\* The tokens g_uuid_string_random produces, in the order it produces them.
TokenOf(n) == IF n = 1 THEN "urn:uuid:1"
              ELSE IF n = 2 THEN "urn:uuid:2"
              ELSE IF n = 3 THEN "urn:uuid:3"
              ELSE "urn:uuid:4"

IssuedTokens == { TokenOf(n) : n \in 1..MaxLocks }

NoLockToken == "DAV:no-lock"

\* A NULL DAVLock pointer.
NoLock == [token |-> "", scope |-> ScopeNone, depth |-> "", path |-> <<>>]

\* dav_lock_new: the lock keeps a reference to the Path it was made for.
dav_lock_new(key, token, scope, depth) ==
  [token |-> token, scope |-> scope, depth |-> depth, path |-> key]

\* get_path: the registry entry of a path.  An entry that was never created
\* and an entry whose lock list is empty answer every walk alike, so the
\* registry is a total map and a missing entry is the empty list.
get_path(path) == PathKey(path)

\* path_add_lock: g_list_append.
path_add_lock(reg, key, lock) == [reg EXCEPT ![key] = Append(@, lock)]

\* path_remove_lock: g_list_remove drops the first element that is `lock'.
RECURSIVE g_list_remove(_, _)
g_list_remove(list, lock) ==
  IF list = <<>> THEN <<>>
  ELSE IF Head(list) = lock THEN Tail(list)
  ELSE <<Head(list)>> \o g_list_remove(Tail(list), lock)

path_remove_lock(reg, key, lock) ==
  [reg EXCEPT ![key] = g_list_remove(@, lock)]

\* dav_lock_free: take the lock off the Path it references.
dav_lock_free(reg, lock) == path_remove_lock(reg, lock.path, lock)

\* foreach_parent_path: TRUE iff cb returned TRUE on every entry of the walk
\* (the walk stops at the first FALSE).  cb[key]: what the callback returns
\* on the entry of the key.
foreach_parent_path(path, cb) ==
  LET keys == ParentKeys(path)
  IN  \A i \in 1..Len(keys) : cb[keys[i]]

\* check_lock: FALSE on an entry that holds an exclusive lock, or that holds
\* any lock when the new lock is exclusive.
check_lock(locks, lock) ==
  LET other == IF locks = <<>> THEN NoLock ELSE locks[Len(locks)]
  IN  /\ \A i \in 1..Len(locks) : locks[i].scope # ScopeExclusive
      /\ ~(other # NoLock /\ lock.scope = ScopeExclusive)

\* A try_add_lock that attaches the lock to the last entry its walk
\* consulted (the entry of the path itself when the walk consulted none).
try_add_lock_partial(reg, path, lock) ==
  LET cb == [key \in Keys |-> check_lock(reg[key], lock)]
  IN  IF ~foreach_parent_path(path, cb)
        THEN [ok |-> FALSE, reg |-> reg]
        ELSE [ok |-> TRUE,
              reg |-> path_add_lock(reg,
                        IF ParentKeys(path) = <<>> THEN get_path(path)
                        ELSE ParentKeys(path)[Len(ParentKeys(path))],
                        lock)]

\* try_add_lock: [ok, reg].
try_add_lock(reg, path, lock) ==
  LET cb == [key \in Keys |-> check_lock(reg[key], lock)]
  IN  IF ~foreach_parent_path(path, cb)
        THEN [ok |-> FALSE, reg |-> reg]
        ELSE [ok |-> TRUE, reg |-> path_add_lock(reg, get_path(path), lock)]

\* _path_get_lock on one entry: the first lock of the list with the token.
RECURSIVE FindToken(_, _)
FindToken(locks, token) ==
  IF locks = <<>> THEN NoLock
  ELSE IF Head(locks).token = token THEN Head(locks)
  ELSE FindToken(Tail(locks), token)

\* path_get_lock: the match of the first entry of the walk that has one.
RECURSIVE PathGetLockFrom(_, _, _)
PathGetLockFrom(reg, keys, token) ==
  IF keys = <<>> THEN NoLock
  ELSE LET found == FindToken(reg[Head(keys)], token)
       IN  IF found # NoLock THEN found
           ELSE PathGetLockFrom(reg, Tail(keys), token)

path_get_lock(reg, path, token) == PathGetLockFrom(reg, ParentKeys(path), token)

\* ------------------------------------------------------ If: header evaluator
\* An If header after the lexer: groups of lists of conditions.  A tagged
\* header has one group per <URL>; an untagged header is one group, bound to
\* the request path.  A condition is a [Not] <token> or a [Not] ["etag"].
TokenCond(neg, token) == [neg |-> neg, kind |-> "token", val |-> token]
EtagCond(neg, etag)   == [neg |-> neg, kind |-> "etag", val |-> etag]

\* lock_submitted_new: the pair a <token> submits; the path loses its
\* trailing slashes.
lock_submitted_new(path, token) == [path |-> remove_trailing(path, "/"), token |-> token]

\* locks_submitted_has: some submitted pair names the lock's path and token.
locks_submitted_has(submitted, lock) ==
  \E i \in 1..Len(submitted) :
    submitted[i].path = lock.path /\ submitted[i].token = lock.token

\* other_lock_exists: TRUE iff every lock of the entry was submitted.
other_lock_exists(locks, submitted) ==
  \A i \in 1..Len(locks) : locks_submitted_has(submitted, locks[i])

\* path_has_other_locks: some entry of the walk holds a lock not submitted.
path_has_other_locks(reg, path, submitted) ==
  LET cb == [key \in Keys |-> other_lock_exists(reg[key], submitted)]
  IN  ~foreach_parent_path(path, cb)

\* check_token.
check_token(reg, path, token) ==
  IF token = NoLockToken THEN FALSE
  ELSE path_get_lock(reg, path, token) # NoLock

\* The entity tag g_file_info_get_etag reports for a file of the tree.
FileEtag(kind) == IF kind = "dir" THEN "etag-of-dir" ELSE "etag-of-file"

\* check_etag: FALSE when the file cannot be queried.
check_etag(tree, path, etag) ==
  LET f == FileOf(path)
  IN  IF tree[f] = "none" THEN FALSE ELSE etag = FileEtag(tree[f])

\* An eval_if_condition that submits the pair of a <token> only when a lock
\* with the token is found.
eval_if_condition_found(reg, tree, st, cond) ==
  IF cond.kind = "token"
    THEN [ok |-> check_token(reg, st.path, cond.val),
          st |-> IF check_token(reg, st.path, cond.val)
                   THEN [st EXCEPT !.locks = Append(@, lock_submitted_new(st.path, cond.val))]
                   ELSE st]
    ELSE [ok |-> check_etag(tree, st.path, cond.val), st |-> st]

\* An IfState: the bound path and the pairs submitted so far.  The eval_
\* operators return [ok, st], st the IfState they leave behind.
\* eval_if_condition.
eval_if_condition(reg, tree, st, cond) ==
  IF cond.kind = "token"
    THEN [ok |-> check_token(reg, st.path, cond.val),
          st |-> [st EXCEPT !.locks = Append(@, lock_submitted_new(st.path, cond.val))]]
    ELSE [ok |-> check_etag(tree, st.path, cond.val), st |-> st]

\* eval_if_not_condition.
eval_if_not_condition(reg, tree, st, cond) ==
  [eval_if_condition(reg, tree, st, cond) EXCEPT !.ok = IF cond.neg THEN ~@ ELSE @]

\* The loop of a list with "=" where eval_if_list has "&=": the last
\* condition decides.
RECURSIVE EvalListFromLast(_, _, _, _)
EvalListFromLast(reg, tree, acc, conds) ==
  IF conds = <<>> THEN acc
  ELSE EvalListFromLast(reg, tree,
                        eval_if_not_condition(reg, tree, acc.st, Head(conds)),
                        Tail(conds))

\* The loop of eval_if_list: success &= each further condition up to the
\* ")".  acc: [ok, st], success and the IfState so far.
RECURSIVE EvalListFrom(_, _, _, _)
EvalListFrom(reg, tree, acc, conds) ==
  IF conds = <<>> THEN acc
  ELSE EvalListFrom(reg, tree,
                    [eval_if_not_condition(reg, tree, acc.st, Head(conds))
                       EXCEPT !.ok = acc.ok /\ @],
                    Tail(conds))

\* eval_if_list: success of the first condition, then the loop.
eval_if_list(reg, tree, st, conds) ==
  EvalListFrom(reg, tree, eval_if_not_condition(reg, tree, st, Head(conds)),
               Tail(conds))

\* The loop of eval_if_lists: success |= each list that follows.
RECURSIVE EvalListsFrom(_, _, _, _)
EvalListsFrom(reg, tree, acc, lists) ==
  IF lists = <<>> THEN acc
  ELSE EvalListsFrom(reg, tree,
                     [eval_if_list(reg, tree, acc.st, Head(lists))
                        EXCEPT !.ok = acc.ok \/ @],
                     Tail(lists))

\* eval_if_lists: success = FALSE, then the loop.
eval_if_lists(reg, tree, st, lists) ==
  EvalListsFrom(reg, tree, [ok |-> FALSE, st |-> st], lists)

\* eval_if_tag: bind the path of the <URL>, then the lists.
eval_if_tag(reg, tree, st, group) ==
  eval_if_lists(reg, tree, [st EXCEPT !.path = group.url], group.lists)

\* The loops of eval_if: success |= each tagged group, or the lists of an
\* untagged header.
RECURSIVE EvalIfFrom(_, _, _, _, _)
EvalIfFrom(reg, tree, acc, tagged, groups) ==
  IF groups = <<>> THEN acc
  ELSE EvalIfFrom(reg, tree,
                  [(IF tagged THEN eval_if_tag(reg, tree, acc.st, Head(groups))
                    ELSE eval_if_lists(reg, tree, acc.st, Head(groups).lists))
                     EXCEPT !.ok = acc.ok \/ @],
                  tagged, Tail(groups))

\* eval_if: success = FALSE, then the loop.
eval_if(reg, tree, st, hdr) ==
  EvalIfFrom(reg, tree, [ok |-> FALSE, st |-> st], hdr.tagged, hdr.groups)

\* The end of the check without its call of server_path_has_other_locks.
check_if_header_only(reg, method, path, str, r) ==
  [status |-> IF r.ok THEN 200 ELSE 412,
   locks  |-> IF r.ok THEN r.st.locks ELSE <<>>]

\* phodav_check_if from the label `end' on.  str: there is an If header;
\* r: [ok, st], success and the IfState at the label.
check_if_end(reg, method, path, str, r) ==
  LET locks  == IF r.ok THEN r.st.locks ELSE <<>>
      status == IF r.ok THEN 200 ELSE IF str THEN 412 ELSE 423
  IN  [status |-> IF r.ok /\ method # "COPY" /\ path_has_other_locks(reg, path, locks)
                    THEN 423 ELSE status,
       locks  |-> locks]

\* phodav_check_if: [status, locks].  Without an If header success stays
\* TRUE and nothing is submitted.
phodav_check_if(reg, tree, method, path, hdr) ==
  check_if_end(reg, method, path, hdr.present,
               IF hdr.present
                 THEN eval_if(reg, tree, [path |-> path, locks |-> <<>>], hdr)
                 ELSE [ok |-> TRUE, st |-> [path |-> path, locks |-> <<>>]])

\* ------------------------------------------------------------------- state
VARIABLES
  paths,     \* PhodavServer.paths: registry key -> list of DAVLock
  nextTok,   \* how many tokens g_uuid_string_random has produced
  fs,        \* the served tree: file -> "none" | "file" | "dir"
  readonly,  \* the server's read-only property
  alive,     \* FALSE once the process has crashed
  last,      \* the last request and the response it got
  ifHeader   \* the If header the client puts on its write requests

davVars == <<paths, nextTok, fs, readonly, alive, last, ifHeader>>

\* The multiplexing daemon (spice-webdavd) and the transport it writes to.
VARIABLES
  variant,    \* which source is running: "bin" or "spice"
  clients,    \* id -> the Client record and what is pending on it
  toSend,     \* id -> the bytes the TCP peer has still to send
  accepted,   \* id -> the bytes client_read_cb has read from the socket
  mux_queue,  \* the elements of the OutputQueue of the transport
  idle_id,    \* output_queue_idle is scheduled
  flushing,   \* a flush of the transport is outstanding
  outstanding, \* how many idle sources and flushes of the queue are pending
  transport,  \* every byte written to the transport so far
  failures,   \* how many I/O operations have failed
  demux,      \* the demultiplexer at the far end of the transport
  peers,      \* the ids in the clients table of the far end
  delivered,  \* id -> the bytes the far end has written to its client
  running     \* FALSE once the daemon has crashed

muxVars ==
  <<variant, clients, toSend, accepted, mux_queue, idle_id, flushing,
    outstanding, transport, failures, demux, peers, delivered, running>>

\* The virtual directory tree (PhodavVirtualDir) of a server rooted in one.
VARIABLES
  nodes,     \* id -> the PhodavVirtualDir object with that id
  vlast      \* the last call made on the tree and what it returned

vdVars == <<nodes, vlast>>

\* The clock the lock timeouts are taken from, and the timeout field of the
\* locks.
VARIABLES
  now,           \* g_get_monotonic_time () / G_USEC_PER_SEC
  lock_timeout   \* token -> DAVLock.timeout of the lock with the token

clockVars == <<now, lock_timeout>>

vars == <<davVars, muxVars, vdVars, clockVars>>

\* ---------------------------------------------------------------- requests
NoIf == [present |-> FALSE, tagged |-> FALSE, groups |-> <<>>]

NoRequest ==
  [method |-> "", path |-> <<>>, depth |-> "", body |-> "", token |-> "",
   scope |-> "", hdr |-> NoIf, dest |-> <<>>, overwrite |-> TRUE,
   mstatus |-> {}, update |-> <<>>, props |-> <<>>, ifStatus |-> 0,
   status |-> 0]

Request(method, path) == [NoRequest EXCEPT !.method = method, !.path = path]

\* The methods the dispatcher refuses with 403 in read-only mode.
ReadOnlyRefused ==
  {"PROPPATCH", "MKCOL", "DELETE", "MOVE", "COPY", "LOCK"}

Refused(method) == readonly /\ method \in ReadOnlyRefused

\* A request that makes the process crash: no response, the locks are gone.
Crash(req) ==
  /\ alive' = FALSE
  /\ paths' = [k \in Keys |-> <<>>]
  /\ last' = req
  /\ UNCHANGED <<nextTok, fs, readonly, ifHeader, muxVars, vdVars, clockVars>>

\* depth_from_string, applied to the Depth header ("" when there is none).
depth_from_string(depth) ==
  IF depth = "" THEN "infinity"
  ELSE IF depth = "0" THEN "0"
  ELSE IF depth = "1" THEN "1"
  ELSE "infinity"

\* The <lockscope> of a parsed <lockinfo> body: parse_lockscope on the
\* element when there is one ("noscope": there is none and scope keeps the
\* value it was initialised with).
LockInfoScope(body) ==
  IF body = "noscope" THEN ScopeShared
  ELSE IF body = ScopeExclusive THEN ScopeExclusive
  ELSE IF body = ScopeShared THEN ScopeShared
  ELSE ScopeNone

\* lock_ensure_file and the status phodav_method_lock derives from it.
LockEnsureStatus(tree, path) ==
  LET c == g_file_create(tree, FileOf(path))
  IN  IF c = "error" THEN 400 ELSE IF c = "created" THEN 201 ELSE 200

\* timeout_from_string, applied to the Timeout header ("" when there is
\* none): the seconds of "Second-n", 0 for "Infinite", without a header and
\* for anything else.
timeout_from_string(timeout) ==
  IF timeout = "" \/ timeout = "Infinite" THEN 0
  ELSE IF timeout = "Second-1" THEN 1
  ELSE IF timeout = "Second-2" THEN 2
  ELSE 0

\* dav_lock_refresh_timeout: the timeout field of the lock with the token
\* becomes the clock plus the timeout, or 0 when the timeout is 0.
dav_lock_refresh_timeout(field, token, clock, timeout) ==
  [field EXCEPT ![token] = IF timeout # 0 THEN clock + timeout ELSE 0]

\* The clock and the timeout fields at start.
ClockStart ==
  /\ now = 0
  /\ lock_timeout = [t \in IssuedTokens |-> 0]

\* phodav_method_lock.  body: "empty" (a refresh), "unparsable", or the
\* <lockscope> of the <lockinfo>; hif: the If header of a refresh, "absent",
\* "malformed" or the token between "(<" and ">)".
Lock(path, depthHdr, timeoutHdr, body, hif) ==
  LET depth == depth_from_string(depthHdr)
      timeout == timeout_from_string(timeoutHdr)
      req   == [Request("LOCK", path) EXCEPT !.depth = depth, !.body = body]
      Reply(status) ==
        /\ last' = [req EXCEPT !.status = status]
        /\ UNCHANGED <<paths, nextTok, fs, readonly, alive, ifHeader, muxVars, vdVars, clockVars>>
  IN
  /\ alive
  /\ IF Refused("LOCK") THEN Reply(403)
     ELSE IF depth # "0" /\ depth # "infinity" THEN Reply(400)
     ELSE IF body = "empty" THEN
       IF hif = "absent" THEN Crash(req)
       ELSE IF hif = "malformed" THEN Reply(400)
       ELSE LET lock == path_get_lock(paths, path, hif)
            IN  /\ last' = [req EXCEPT !.token = hif,
                                       !.status = IF lock = NoLock THEN 400 ELSE 200]
                /\ lock_timeout' = IF lock = NoLock THEN lock_timeout
                                   ELSE dav_lock_refresh_timeout(lock_timeout, hif, now, timeout)
                /\ UNCHANGED <<paths, nextTok, fs, readonly, alive, ifHeader, muxVars, vdVars, now>>
     ELSE IF body = "unparsable" THEN Reply(400)
     ELSE
       /\ nextTok < MaxLocks
       /\ LET token == TokenOf(nextTok + 1)
              scope == LockInfoScope(body)
              lock  == dav_lock_new(get_path(path), token, scope, depth)
              r     == try_add_lock(paths, path, lock)
              st    == LockEnsureStatus(fs, path)
          IN  /\ nextTok' = nextTok + 1
              /\ paths' = IF r.ok THEN r.reg ELSE dav_lock_free(r.reg, lock)
              /\ fs' = IF r.ok /\ st = 201
                         THEN [fs EXCEPT ![FileOf(path)] = "file"] ELSE fs
              /\ last' = [req EXCEPT !.token = token, !.scope = scope,
                                     !.status = IF r.ok THEN st ELSE 423]
              /\ lock_timeout' = IF r.ok
                                   THEN dav_lock_refresh_timeout(lock_timeout, token, now, timeout)
                                   ELSE lock_timeout
              /\ UNCHANGED <<readonly, alive, ifHeader, muxVars, vdVars, now>>

\* remove_brackets on the Lock-Token header: "" stands for NULL (no header,
\* or one that is not "<...>").
remove_brackets(hdr) == IF hdr = "absent" \/ hdr = "malformed" THEN "" ELSE hdr

\* phodav_method_unlock.
Unlock(path, lockToken) ==
  LET token == remove_brackets(lockToken)
      req   == [Request("UNLOCK", path) EXCEPT !.token = token]
      lock  == path_get_lock(paths, path, token)
  IN
  /\ alive
  /\ IF token = "" THEN
       /\ last' = [req EXCEPT !.status = 400]
       /\ UNCHANGED paths
     ELSE IF lock = NoLock THEN
       /\ last' = [req EXCEPT !.status = 409]
       /\ UNCHANGED paths
     ELSE
       /\ paths' = dav_lock_free(paths, lock)
       /\ last' = [req EXCEPT !.status = 204]
  /\ UNCHANGED <<nextTok, fs, readonly, alive, ifHeader, muxVars, vdVars, clockVars>>

\* ----------------------------------------------------------- write methods
\* The response of a handler that changes neither locks nor tokens: chk is
\* what phodav_check_if answered (0: the handler returned before it).
WriteReply(req, chk, status, tree) ==
  /\ last' = [req EXCEPT !.ifStatus = chk, !.status = status]
  /\ fs' = tree
  /\ UNCHANGED <<paths, nextTok, readonly, alive, ifHeader, muxVars, vdVars, clockVars>>

\* What a handler does after its call of phodav_check_if: it returns what
\* the check answered unless that is 200.  chk: the answer of the check;
\* r: [status, tree], what the handler does to the files otherwise.
Checked(req, chk, r) ==
  IF chk.status # 200 THEN WriteReply(req, chk.status, chk.status, fs)
  ELSE WriteReply(req, 200, r.status, r.tree)

\* A put_start that answers 201 for every file it opens.
put_start_created(tree, f) ==
  LET r == g_file_replace(tree, f)
  IN  [status |-> IF r.err # "" THEN 500 ELSE 201, tree |-> r.tree]

\* put_start: 500 unless g_file_replace opens the file.
put_start(tree, f) ==
  LET created == tree[f] = "none"
      r       == g_file_replace(tree, f)
  IN  [status |-> IF r.err # "" THEN 500 ELSE IF created THEN 201 ELSE 200,
       tree   |-> r.tree]

\* method_put_got_chunk, for the chunks of the body: they are written to the
\* file put_start opened, if it opened one, and a write that fails sets the
\* status to 500.  r: [status, tree] of put_start.
method_put_got_chunk(r, error) ==
  [r EXCEPT !.status = IF error /\ @ # 500 THEN 500 ELSE @]

\* phodav_method_put, called by got_headers, and the chunks that follow.
\* body: "write-error" when the write of a chunk fails.  The status is set
\* when the headers have been read, and libsoup does not call
\* server_callback for a message whose status is set.
Put(path, body, hdr) ==
  LET req == [Request("PUT", path) EXCEPT !.hdr = hdr, !.body = body]
  IN
  /\ alive
  /\ IF readonly THEN WriteReply(req, 0, 403, fs)
     ELSE Checked(req, phodav_check_if(paths, fs, "PUT", path, hdr),
                  method_put_got_chunk(put_start(fs, FileOf(path)),
                                       body = "write-error"))

\* do_mkcol_file.
do_mkcol_file(tree, f) ==
  LET r == g_file_make_directory(tree, f)
  IN  [status |-> IF r.err = "" THEN 201
                  ELSE IF r.err = "not-found" THEN 409
                  ELSE IF r.err = "exists" THEN 405 ELSE 403,
       tree   |-> r.tree]

\* phodav_method_mkcol.  body: TRUE iff the request has a body.
\* A phodav_method_mkcol that calls phodav_check_if before it looks at the
\* request body.
MkcolIfFirst(path, body, hdr) ==
  LET req == [Request("MKCOL", path) EXCEPT
                !.hdr = hdr, !.body = IF body THEN "body" ELSE ""]
      chk == phodav_check_if(paths, fs, "MKCOL", path, hdr)
  IN
  /\ alive
  /\ IF Refused("MKCOL") THEN WriteReply(req, 0, 403, fs)
     ELSE IF chk.status # 200 THEN WriteReply(req, chk.status, chk.status, fs)
     ELSE IF body THEN WriteReply(req, 200, 415, fs)
     ELSE Checked(req, chk, do_mkcol_file(fs, FileOf(path)))

Mkcol(path, body, hdr) ==
  LET req == [Request("MKCOL", path) EXCEPT
                !.hdr = hdr, !.body = IF body THEN "body" ELSE ""]
  IN
  /\ alive
  /\ IF Refused("MKCOL") THEN WriteReply(req, 0, 403, fs)
     ELSE IF body THEN WriteReply(req, 0, 415, fs)
     ELSE Checked(req, phodav_check_if(paths, fs, "MKCOL", path, hdr),
                  do_mkcol_file(fs, FileOf(path)))

\* What goes wrong during a DELETE: nothing, or g_file_delete of one file is
\* denied, or one file has vanished by the time it is to be deleted.
NoFailure == [kind |-> "none", file |-> RootFile]

\* The files g_file_enumerate_children (f) enumerates.
Children(tree, f) ==
  { g \in Files : Len(g) = Len(f) + 1 /\ IsUnder(g, f) /\ tree[g] # "none" }

\* The tree when phodav_delete_file turns to f.
Vanish(tree, f, bad) ==
  IF bad.kind = "vanished" /\ bad.file = f THEN RemoveTree(tree, f) ELSE tree

\* g_file_delete: unlink or rmdir.
g_file_delete(tree, f, bad) ==
  IF tree[f] = "none" THEN Failed("not-found", tree)
  ELSE IF bad.kind = "denied" /\ bad.file = f
    THEN Failed("permission-denied", tree)
  ELSE IF Children(tree, f) # {} THEN Failed("not-empty", tree)
  ELSE Done([tree EXCEPT ![f] = "none"])

\* error_to_status.
error_to_status(err) == IF err = "not-found" THEN 404 ELSE 403

\* The end of phodav_delete_file: r is what g_file_delete returned; its
\* failure is an entry of mstatus, and the status, if there is an mstatus.
\* acc: [tree, entries], the entries being the files with an entry so far.
DeleteEnd(acc, r, f, mstatus) ==
  [status  |-> IF r.err # "" /\ mstatus THEN error_to_status(r.err) ELSE 204,
   tree    |-> r.tree,
   entries |-> IF r.err # "" /\ mstatus THEN acc.entries \cup {f}
               ELSE acc.entries]

DeleteSelf(acc, f, mstatus, bad) ==
  DeleteEnd(acc, g_file_delete(acc.tree, f, bad), f, mstatus)

\* What the call for one child leaves: its status is not looked at.
DeleteMerge(acc, r) ==
  [tree |-> r.tree, entries |-> acc.entries \cup r.entries]

\* phodav_delete_file: the children go first, then the file itself.
RECURSIVE phodav_delete_file(_, _, _, _)
RECURSIVE DeleteChildren(_, _, _, _)
RECURSIVE DeleteNext(_, _, _, _, _)
DeleteNext(acc, g, kids, mstatus, bad) ==
  DeleteChildren(DeleteMerge(acc, phodav_delete_file(acc.tree, g, mstatus, bad)),
                 kids \ {g}, mstatus, bad)

DeleteChildren(acc, kids, mstatus, bad) ==
  IF kids = {} THEN acc
  ELSE DeleteNext(acc, CHOOSE g \in kids : TRUE, kids, mstatus, bad)

DeleteUnder(tree, f, mstatus, bad) ==
  DeleteChildren([tree |-> tree, entries |-> {}], Children(tree, f),
                 mstatus, bad)

phodav_delete_file(tree, f, mstatus, bad) ==
  DeleteSelf(DeleteUnder(Vanish(tree, f, bad), f, mstatus, bad),
             f, mstatus, bad)

\* phodav_method_delete after its call of phodav_check_if.  r: [status,
\* tree, entries] of phodav_delete_file; the response is a multistatus if
\* the top-level status is 204 and the map has an entry.
DeleteChecked(req, chk, r) ==
  IF chk.status # 200 THEN WriteReply(req, chk.status, chk.status, fs)
  ELSE WriteReply([req EXCEPT !.mstatus = r.entries], 200,
                  IF r.status = 204 /\ r.entries # {} THEN 207 ELSE r.status,
                  r.tree)

\* phodav_method_delete.
Delete(path, bad, hdr) ==
  LET req == [Request("DELETE", path) EXCEPT !.hdr = hdr]
  IN
  /\ alive
  /\ IF Refused("DELETE") THEN WriteReply(req, 0, 403, fs)
     ELSE DeleteChecked(req, phodav_check_if(paths, fs, "DELETE", path, hdr),
                        phodav_delete_file(fs, FileOf(path), TRUE, bad))

\* An instruction of a <propertyupdate> is a <set> or a <remove> with the
\* names of the properties in its <prop>.
\* set_attr: what setting or removing the extended attribute answers.
\* g_file_set_attribute fails on a file that does not exist; a removal
\* answers 200 whatever removexattr did.
set_attr(tree, f, instr) ==
  IF instr.kind = "set" /\ tree[f] = "none" THEN 404 ELSE 200

\* prop_set: the first property of the <prop> is the one dealt with; a
\* <set> makes *attr a copy of its node, a <remove> leaves *attr as it was.
\* acc: [attr, nodes, props]: the node attr points at (0: NULL), the nodes
\* copied so far with the status in their _private field, and the list
\* props of pointers to nodes.
prop_set(acc, instr) ==
  IF instr.kind = "set"
    THEN [acc EXCEPT !.nodes = Append(@, [name |-> Head(instr.names), status |-> 0]),
                     !.attr = Len(acc.nodes) + 1]
    ELSE acc

\* The end of the loop body of phodav_method_proppatch: the node attr points
\* at, if any, is stamped with the status and appended to props.
PropStamp(acc, status) ==
  IF acc.attr = 0 THEN acc
  ELSE [acc EXCEPT !.nodes[acc.attr].status = status,
                   !.props = Append(@, acc.attr)]

\* The loop of phodav_method_proppatch over the instructions.
RECURSIVE PropUpdates(_, _, _, _)
PropUpdates(acc, tree, f, update) ==
  IF update = <<>> THEN acc
  ELSE PropUpdates(PropStamp(prop_set(acc, Head(update)),
                             set_attr(tree, f, Head(update))),
                   tree, f, Tail(update))

\* The properties add_propstat finds in the list, each with its stamp.
PropList(acc) == [i \in 1..Len(acc.props) |-> acc.nodes[acc.props[i]]]

\* The props of the response of a PROPPATCH.
PropsOf(tree, f, update) ==
  PropList(PropUpdates([attr |-> 0, nodes |-> <<>>, props |-> <<>>],
                       tree, f, update))

\* phodav_method_proppatch after its call of phodav_check_if.  With an empty
\* list response_new (NULL, 0) fails its precondition and returns NULL, the
\* map gets a NULL value and set_response_multistatus dereferences it.
ProppatchChecked(req, chk, props) ==
  IF chk.status # 200 THEN WriteReply(req, chk.status, chk.status, fs)
  ELSE IF props = <<>> THEN Crash([req EXCEPT !.ifStatus = 200])
  ELSE WriteReply([req EXCEPT !.props = props], 200, 207, fs)

\* phodav_method_proppatch.  body: "unparsable" or a <propertyupdate> with
\* the instructions of `update'; the answer to an update is a multistatus.
Proppatch(path, body, update, hdr) ==
  LET req == [Request("PROPPATCH", path) EXCEPT
                !.hdr = hdr, !.body = body, !.update = update]
  IN
  /\ alive
  /\ IF Refused("PROPPATCH") THEN WriteReply(req, 0, 403, fs)
     ELSE IF body = "unparsable" THEN WriteReply(req, 0, 400, fs)
     ELSE ProppatchChecked(req,
                           phodav_check_if(paths, fs, "PROPPATCH", path, hdr),
                           PropsOf(fs, FileOf(path), update))

\* do_copy_r: make dst, then copy what is below src.  Nothing can fail once
\* dst is made, for everything below it is new.
do_copy_r(tree, src, dst) ==
  LET r == g_file_make_directory_with_parents(tree, dst)
  IN  IF r.err # "" THEN r ELSE Done(CopyTree(r.tree, src, dst))

\* The end of do_movecopy_file: 412 when an error is left, else 204 or 201.
\* x: [err, tree].
MoveCopyEnd(exists, x) ==
  [status |-> IF x.err # "" THEN 412 ELSE IF exists THEN 204 ELSE 201,
   tree   |-> x.tree]

\* The body of do_movecopy_file from the label `again' on; MoveCopied: what
\* follows the call of g_file_copy or g_file_move, r being what it returned.
RECURSIVE MoveCopyAgain(_, _, _, _, _, _, _, _)
RECURSIVE MoveCopied(_, _, _, _, _, _, _, _)
MoveCopied(copy, depth, overwrite, src, dst, exists, retry, r) ==
  IF overwrite /\ ~retry /\ r.err \in {"is-directory", "would-merge"}
    THEN MoveCopyAgain(phodav_delete_file(r.tree, dst, FALSE, NoFailure).tree,
                       copy, depth, overwrite, src, dst, exists, TRUE)
  ELSE IF ~overwrite /\ r.err = "exists" THEN [status |-> 412, tree |-> r.tree]
  ELSE IF r.err = "would-recurse" THEN
    IF ~copy THEN MoveCopyEnd(exists, Done(r.tree))
    ELSE IF depth = "infinity" THEN MoveCopyEnd(exists, do_copy_r(r.tree, src, dst))
    ELSE MoveCopyEnd(exists, g_file_make_directory_with_parents(r.tree, dst))
  ELSE IF r.err = "not-found" THEN [status |-> 409, tree |-> r.tree]
  ELSE MoveCopyEnd(exists, r)

MoveCopyAgain(tree, copy, depth, overwrite, src, dst, exists, retry) ==
  IF depth = "1" THEN MoveCopyEnd(exists, Done(tree))
  ELSE MoveCopied(copy, depth, overwrite, src, dst, exists, retry,
                  IF copy THEN g_file_copy(tree, src, dst, overwrite)
                  ELSE g_file_move(tree, src, dst, overwrite))

\* do_movecopy_file.
do_movecopy_file(tree, copy, depthHdr, overwrite, src, dst) ==
  MoveCopyAgain(tree, copy, depth_from_string(depthHdr), overwrite, src, dst,
                tree[dst] # "none", FALSE)

\* The copies and moves the tree of the model has room for: the source is not
\* the share itself, what lies below it has a place below the target, and a
\* directory is not copied into itself (do_copy_r would find its own copy
\* among the children it enumerates).
HasRoom(tree, copy, src, dst) ==
  /\ src # RootFile
  /\ ~(copy /\ tree[src] = "dir" /\ IsUnder(dst, src) /\ dst # src)
  /\ \A f \in Files :
       (tree[f] # "none" /\ IsUnder(f, src)) => Rebase(f, src, dst) \in Files

\* The path of a Destination header that is missing, or has no path.
NoDestination == <<>>

\* phodav_method_movecopy after its call of phodav_check_if: the locks of
\* the destination are checked, then the files are moved or copied.  chk: the
\* answer of the check; r: [status, tree] of do_movecopy_file.
MoveCopyChecked(req, chk, r) ==
  IF chk.status # 200 THEN WriteReply(req, chk.status, chk.status, fs)
  ELSE IF path_has_other_locks(paths, req.dest, chk.locks)
    THEN WriteReply(req, 200, 423, fs)
  ELSE /\ HasRoom(fs, req.method = "COPY", FileOf(req.path), FileOf(req.dest))
       /\ WriteReply(req, 200, r.status, r.tree)

\* phodav_method_movecopy.  dest: the path of the Destination URI.
MoveCopy(method, path, dest, depthHdr, overwrite, hdr) ==
  LET req == [Request(method, path) EXCEPT
                !.hdr = hdr, !.depth = depth_from_string(depthHdr),
                !.overwrite = overwrite, !.dest = dest]
  IN
  /\ alive
  /\ IF Refused(method) THEN WriteReply(req, 0, 403, fs)
     ELSE IF dest = NoDestination THEN WriteReply(req, 0, 404, fs)
     ELSE MoveCopyChecked(req, phodav_check_if(paths, fs, method, path, hdr),
                          do_movecopy_file(fs, method = "COPY", depthHdr, overwrite,
                                           FileOf(path), FileOf(dest)))

\* ------------------------------------------------------------------- inputs
\* The instructions of a <propertyupdate>: <set> of property a, <set> with
\* the properties a and c in its <prop>, and <remove> of property b.
PropInstructions ==
  { [kind |-> "set", names |-> <<"a">>],
    [kind |-> "set", names |-> <<"a", "c">>],
    [kind |-> "remove", names |-> <<"b">>] }

\* The updates of one to MaxInstructions instructions.
PropertyUpdates ==
  UNION { [1..n -> PropInstructions] : n \in 1..MaxInstructions }

\* The update that sets one property.
OneSet == << [kind |-> "set", names |-> <<"a">>] >>

DepthHeaders == {"", "0", "1"}

LockBodies == {"empty", "unparsable", "noscope", ScopeExclusive, ScopeShared, ScopeNone}

ClientTokens == IssuedTokens \cup {NoLockToken}

TokenHeaders == ClientTokens \cup {"absent", "malformed"}

\* If headers.  Untagged: "(...) (...)"; Tagged: "<url> (...) <url> (...)".
Untagged(lists) ==
  [present |-> TRUE, tagged |-> FALSE,
   groups |-> << [url |-> <<>>, lists |-> lists] >>]

Group(url, lists) == [url |-> url, lists |-> lists]

Tagged(groups) == [present |-> TRUE, tagged |-> TRUE, groups |-> groups]

\* The conditions of the headers that are enumerated.
Conditions ==
  { TokenCond(FALSE, TokenOf(1)), TokenCond(TRUE, TokenOf(1)),
    TokenCond(FALSE, NoLockToken), EtagCond(FALSE, "etag-of-file") }

\* The lists of at most MaxConds conditions.
Lists == UNION { [1..n -> Conditions] : n \in 1..MaxConds }

\* The untagged headers of at most MaxLists lists and MaxIfSize conditions.
RECURSIVE IfSize(_)
IfSize(lists) ==
  IF lists = <<>> THEN 0 ELSE Len(Head(lists)) + IfSize(Tail(lists))

UntaggedHeaders ==
  { Untagged(ls) :
      ls \in { l \in UNION { [1..n -> Lists] : n \in 1..MaxLists } :
                 IfSize(l) <= MaxIfSize } }

\* The paths the requests on If headers name, as request path or tagged URL.
IfPaths == { <<"/">>, <<"/", "a">>, <<"/", "a", "/", "b">> }

\* The paths these requests lock.
IfLockPaths == { <<"/">>, <<"/", "a">> }

\* Tagged headers: one group of one condition, and two groups of one token
\* each.
TaggedHeaders ==
  { Tagged(<< Group(u, << <<c>> >>) >>) : u \in IfPaths, c \in Conditions }
    \cup { Tagged(<< Group(u, << <<TokenCond(FALSE, TokenOf(1))>> >>),
                     Group(v, << <<TokenCond(FALSE, TokenOf(2))>> >>) >>) :
             u \in IfPaths, v \in IfPaths }

IfHeaders == {NoIf} \cup UntaggedHeaders \cup TaggedHeaders

\* ----------------------------------------------------------- specifications
\* The tree right after the server starts: an empty share.
InitTree == [f \in Files |-> IF f = RootFile THEN "dir" ELSE "none"]

\* ------------------------------------------------------ virtual directories
\* How many PhodavVirtualDir objects the tree has room for, the root included.
MaxNodes == 3

NodeIds == 1..MaxNodes

\* A GFile of the server: a PhodavVirtualDir of the tree ("virtual"), a new
\* object made by virtual_dir_dummy_new ("dummy"), a file of the host
\* ("real"), or NULL ("null").
VirtualFile(n) == [kind |-> "virtual", node |-> n, file |-> RootFile]
RealFile(f)    == [kind |-> "real", node |-> 0, file |-> f]
DummyFile      == [kind |-> "dummy", node |-> 0, file |-> RootFile]
NullFile       == [kind |-> "null", node |-> 0, file |-> RootFile]

\* PHODAV_IS_VIRTUAL_DIR.
PHODAV_IS_VIRTUAL_DIR(file) == file.kind \in {"virtual", "dummy"}

\* struct _PhodavVirtualDir, and the reference count of its GObject.  state:
\* "none" until the object is made, "freed" once it is finalized.  parent: 0
\* for NULL.  real_root: TRUE when a real root (the share) is set.
NoNode ==
  [state |-> "none", path |-> <<>>, dummy |-> FALSE, parent |-> 0,
   children |-> <<>>, real_root |-> FALSE, ref_count |-> 0]

\* phodav_virtual_dir_new_root: the object the caller gets, with its one
\* reference.
phodav_virtual_dir_new_root ==
  [NoNode EXCEPT !.state = "live", !.path = <<"/">>, !.ref_count = 1]

\* is_root.
is_root(node) == node.path = <<"/">>

\* strrchr (str, '/'): where the last '/' of str is, 0 if it has none.
LastSlash(str) ==
  IF \A i \in 1..Len(str) : str[i] # "/" THEN 0
  ELSE CHOOSE i \in 1..Len(str) :
         str[i] = "/" /\ \A j \in (i + 1)..Len(str) : str[j] # "/"

\* g_path_get_dirname: what precedes the last '/', without the separators
\* that end it, but never less than the first character.
g_path_get_dirname(str) ==
  IF LastSlash(str) = 0 THEN <<".">>
  ELSE IF remove_trailing(SubSeq(str, 1, LastSlash(str)), "/") = <<>>
    THEN <<"/">>
  ELSE remove_trailing(SubSeq(str, 1, LastSlash(str)), "/")

\* g_path_get_basename: what follows the last '/' once the trailing
\* separators are dropped; "/" for a string of separators.
g_path_get_basename(str) ==
  IF str = <<>> THEN <<".">>
  ELSE IF remove_trailing(str, "/") = <<>> THEN <<"/">>
  ELSE SubSeq(remove_trailing(str, "/"),
              LastSlash(remove_trailing(str, "/")) + 1,
              Len(remove_trailing(str, "/")))

\* g_file_get_basename of a child of a virtual directory.
ChildBasename(tree, child) ==
  IF child.kind = "virtual" THEN g_path_get_basename(tree[child.node].path)
  ELSE child.file[Len(child.file)]

\* phodav_virtual_dir_find_direct_child: the first child of the list with
\* that base name, or NULL.
phodav_virtual_dir_find_direct_child(tree, n, name) ==
  LET list == tree[n].children
      hits == { i \in 1..Len(list) : ChildBasename(tree, list[i]) = name }
  IN  IF hits = {} THEN NullFile
      ELSE list[CHOOSE i \in hits : \A j \in hits : i <= j]

\* The loop of phodav_virtual_dir_find_child_recursive over the segments
\* left: [file, common], the file found (or NULL) and *common_segment.
RECURSIVE FindFrom(_, _, _, _)
FindFrom(tree, current, segs, common) ==
  IF segs = <<>> THEN [file |-> current, common |-> common]
  ELSE IF Head(segs) = <<>> THEN FindFrom(tree, current, Tail(segs), common)
  ELSE IF ~PHODAV_IS_VIRTUAL_DIR(current)
    THEN [file |-> RealFile(current.file \o NonEmpty(segs)), common |-> common]
  ELSE IF phodav_virtual_dir_find_direct_child(tree, current.node, Head(segs)) = NullFile
    THEN [file |-> NullFile, common |-> common]
  ELSE FindFrom(tree,
                phodav_virtual_dir_find_direct_child(tree, current.node, Head(segs)),
                Tail(segs), TRUE)

\* phodav_virtual_dir_find_child_recursive (parent, path, &common_segment).
phodav_virtual_dir_find_child_recursive(tree, n, path) ==
  FindFrom(tree, VirtualFile(n), g_strsplit(path), FALSE)

\* A resolution that asks the real root before it looks at the children.
resolve_real_root_first(tree, n, relative_path) ==
  IF relative_path = <<>> THEN VirtualFile(n)
  ELSE IF tree[n].real_root THEN RealFile(FileOf(relative_path))
  ELSE IF phodav_virtual_dir_find_child_recursive(tree, n, relative_path).file # NullFile
    THEN phodav_virtual_dir_find_child_recursive(tree, n, relative_path).file
  ELSE DummyFile

\* A resolution that falls back to the real root whenever no child is found.
resolve_real_root_last(tree, n, relative_path) ==
  IF relative_path = <<>> THEN VirtualFile(n)
  ELSE IF phodav_virtual_dir_find_child_recursive(tree, n, relative_path).file # NullFile
    THEN phodav_virtual_dir_find_child_recursive(tree, n, relative_path).file
  ELSE IF tree[n].real_root THEN RealFile(FileOf(relative_path))
  ELSE DummyFile

\* phodav_virtual_dir_resolve_relative_path: the children first, then a
\* dummy if a segment was found among them, then the real root.
phodav_virtual_dir_resolve_relative_path(tree, n, relative_path) ==
  IF relative_path = <<>> THEN VirtualFile(n)
  ELSE IF phodav_virtual_dir_find_child_recursive(tree, n, relative_path).file # NullFile
    THEN phodav_virtual_dir_find_child_recursive(tree, n, relative_path).file
  ELSE IF phodav_virtual_dir_find_child_recursive(tree, n, relative_path).common
    THEN DummyFile
  ELSE IF tree[n].real_root THEN RealFile(FileOf(relative_path))
  ELSE DummyFile

\* phodav_virtual_dir_query_info: "not-found" for a dummy, what the real
\* root answers if there is one, else a directory.  disk: the files of the
\* host.
phodav_virtual_dir_query_info(tree, disk, file) ==
  IF file.kind = "dummy" THEN "not-found"
  ELSE IF tree[file.node].dummy THEN "not-found"
  ELSE IF tree[file.node].real_root THEN disk[RootFile]
  ELSE "dir"

\* g_file_query_info of any GFile of the server.
g_file_query_info(tree, disk, file) ==
  IF PHODAV_IS_VIRTUAL_DIR(file) THEN phodav_virtual_dir_query_info(tree, disk, file)
  ELSE IF disk[file.file] = "none" THEN "not-found"
  ELSE disk[file.file]

\* The tree right after phodav_virtual_dir_new_root.
VdStart ==
  /\ nodes = [n \in NodeIds |-> IF n = 1 THEN phodav_virtual_dir_new_root ELSE NoNode]
  /\ vlast = [op |-> "new_root", node |-> 1, path |-> <<>>, result |-> VirtualFile(1)]

\* ------------------------------------------------------ multiplexer: data
ClientIds == 1..MaxClients

\* The k-th byte the TCP peer of client id sends.
Payload(id) == [k \in 1..MaxBytes |-> 16 * id + k]

\* The bytes of a gint64 and of a guint16 as memory holds them.
IdBytes(id) == <<id % 256, (id \div 256) % 256, 0, 0, 0, 0, 0, 0>>

SizeBytes(n) == <<n % 256, (n \div 256) % 256>>

\* The guint16 two bytes of memory hold.
SizeOf(bytes) == bytes[1] + 256 * bytes[2]

\* A Client that was never accepted.
NoClient ==
  [st |-> "absent", inTable |-> FALSE, refs |-> 0, freed |-> FALSE,
   size |-> 0, buf |-> <<>>]

\* What an element of the transport queue points at: the whole mux struct of
\* the client (bin), or its id, size or buf field (spice).
ElemBytes(cl, e) ==
  IF e.kind = "frame"
    THEN IdBytes(e.client) \o SizeBytes(cl[e.client].size) \o cl[e.client].buf
  ELSE IF e.kind = "id" THEN IdBytes(e.client)
  ELSE IF e.kind = "size" THEN SizeBytes(cl[e.client].size)
  ELSE cl[e.client].buf

\* client_unref (bin): the record is freed with its last reference.
client_unref(cl, c) ==
  [cl EXCEPT ![c].refs = @ - 1, ![c].freed = (cl[c].refs = 1)]

\* A remove_client that empties the table: every client is removed and
\* freed.
remove_every_client(v, cl, c) ==
  [d \in ClientIds |->
     IF cl[d].inTable THEN [cl[d] EXCEPT !.inTable = FALSE, !.freed = TRUE]
     ELSE cl[d]]

\* remove_client: g_hash_table_remove runs the destroy function of the
\* table, client_unref (bin) or client_free (spice), if the id is in it.
remove_client(v, cl, c) ==
  IF ~cl[c].inTable THEN cl
  ELSE IF v = "bin" THEN client_unref([cl EXCEPT ![c].inTable = FALSE], c)
  ELSE [cl EXCEPT ![c].inTable = FALSE, ![c].freed = TRUE]

\* mux_pushed_cb, on a Client that has not been freed.
mux_pushed_cb(v, cl, c, error) ==
  LET removed == remove_client(v, cl, c)
      read    == [cl EXCEPT ![c].st = "reading",
                            ![c].refs = IF v = "bin" THEN @ + 1 ELSE @]
      after   == IF error \/ cl[c].size = 0
                   THEN [removed EXCEPT ![c].st = "done"] ELSE read
  IN  IF v = "bin" THEN client_unref(after, c) ELSE after

\* A handle_push_error that goes on as mux_pushed_cb does: the client is
\* read again once its id or its size has been written.
handle_push_error_reads(v, cl, c, error) ==
  IF error THEN [remove_client(v, cl, c) EXCEPT ![c].st = "done"]
  ELSE [cl EXCEPT ![c].st = "reading"]

\* handle_push_error (spice), on a Client that has not been freed.
handle_push_error(v, cl, c, error) ==
  IF error THEN [remove_client(v, cl, c) EXCEPT ![c].st = "done"] ELSE cl

\* The completion callback of a queue element.
PushedCb(v, cl, e, error) ==
  IF e.kind = "frame" \/ e.kind = "payload"
    THEN mux_pushed_cb(v, cl, e.client, error)
    ELSE handle_push_error(v, cl, e.client, error)

\* The elements client_read_cb pushes for one read: the mux struct in one
\* piece (bin), or id, size and payload (spice).
FrameElems(v, c) ==
  IF v = "bin" THEN << [kind |-> "frame", client |-> c] >>
  ELSE << [kind |-> "id", client |-> c], [kind |-> "size", client |-> c],
          [kind |-> "payload", client |-> c] >>

\* The daemon at start, running one of `variants'.
MuxStart(variants) ==
  /\ variant \in variants
  /\ clients = [c \in ClientIds |-> NoClient]
  /\ toSend = [c \in ClientIds |-> Payload(c)]
  /\ accepted = [c \in ClientIds |-> <<>>]
  /\ mux_queue = <<>>
  /\ idle_id = FALSE
  /\ flushing = FALSE
  /\ outstanding = [idle |-> 0, flush |-> 0]
  /\ transport = <<>>
  /\ failures = 0
  /\ demux = [phase |-> "client", pos |-> 0, client |-> <<>>, size |-> 0,
              buf |-> <<>>, to |-> 0, reads |-> 1, writes |-> 0,
              quit_service |-> FALSE]
  /\ peers = ClientIds
  /\ delivered = [c \in ClientIds |-> <<>>]
  /\ running = TRUE

\* The server after construction, read-only or not as `modes' allows, and a
\* client that sends one of `headers'.
DavStart(headers, modes) ==
  /\ paths = [k \in Keys |-> <<>>]
  /\ nextTok = 0
  /\ fs = InitTree
  /\ readonly \in modes
  /\ alive = TRUE
  /\ last = NoRequest
  /\ ifHeader \in headers

DavInitWith(headers) == DavStart(headers, BOOLEAN) /\ MuxStart({"bin"}) /\ VdStart /\ ClockStart

DavInit == DavInitWith({NoIf})

\* A LOCK request.  The handler returns on a bad Depth before it looks at
\* the body, and reads the If header of a refresh only: the inputs it does
\* not look at are not varied.
LockRequest ==
  \E p \in RawPaths :
    \/ \E d \in DepthHeaders :
         \E b \in (IF depth_from_string(d) = "1" THEN {"unparsable"}
                   ELSE LockBodies \ {"empty"}) :
           Lock(p, d, "", b, "absent")
    \/ \E h \in TokenHeaders : Lock(p, "0", "", "empty", h)

UnlockRequest ==
  \E p \in RawPaths, t \in TokenHeaders : Unlock(p, t)

NextLock == LockRequest \/ UnlockRequest

SpecLock == DavInit /\ [][NextLock]_vars

\* Requests that run the If precondition check.  PROPPATCH does nothing but
\* the check and an update of properties; COPY is the method the check
\* treats apart.
IfLockRequest ==
  \E p \in IfLockPaths, b \in {ScopeExclusive, ScopeShared} :
    Lock(p, "", "", b, "absent")

IfUnlockRequest ==
  \E p \in IfLockPaths, t \in IssuedTokens : Unlock(p, t)

IfProppatchRequest ==
  \E p \in IfPaths : Proppatch(p, "propertyupdate", OneSet, ifHeader)

IfCopyRequest ==
  \E p \in IfPaths : MoveCopy("COPY", p, <<"/", "b">>, "0", FALSE, ifHeader)

NextIf ==
  IfLockRequest \/ IfUnlockRequest \/ IfProppatchRequest \/ IfCopyRequest

IfInit == DavInitWith(IfHeaders)

SpecIf == IfInit /\ [][NextIf]_vars

\* The write requests of a client that sends one If header, on a share where
\* / and /a get locked.
WriteHeaders ==
  { NoIf,
    Untagged(<< <<TokenCond(FALSE, TokenOf(1))>> >>),
    Untagged(<< <<TokenCond(TRUE, NoLockToken)>> >>),
    Untagged(<< <<TokenCond(FALSE, NoLockToken)>> >>) }

WritePaths == { <<"/", "a">>, <<"/", "a", "/", "b">>, <<"/", "b">> }

WriteLockRequest ==
  \E p \in IfLockPaths : Lock(p, "", "", ScopeExclusive, "absent")

WriteUnlockRequest ==
  \E p \in IfLockPaths, t \in IssuedTokens : Unlock(p, t)

\* The bodies of a PUT: one whose chunks are all written, and one with a
\* chunk whose write fails.
PutBodies == {"", "write-error"}

PutRequest == \E p \in WritePaths, body \in PutBodies : Put(p, body, ifHeader)

\* The handlers that look at the body do so before they look at the path:
\* a bad body is sent to one path.
MkcolRequest ==
  \E p \in WritePaths, body \in BOOLEAN :
    /\ body => p = <<"/", "a">>
    /\ Mkcol(p, body, ifHeader)

\* What goes wrong during a DELETE of the client: nothing, or something
\* with /a/b.
DeleteFailures ==
  {NoFailure} \cup
  [kind : {"denied", "vanished"}, file : {FileOf(<<"/", "a", "/", "b">>)}]

DeleteRequest ==
  \E p \in WritePaths, bad \in DeleteFailures : Delete(p, bad, ifHeader)

\* An update other than the plain one is sent to one path, as a bad body is.
ProppatchRequest ==
  \E p \in WritePaths, body \in {"unparsable", "propertyupdate"},
     update \in PropertyUpdates :
    /\ body = "unparsable" => (p = <<"/", "a">> /\ update = OneSet)
    /\ update # OneSet => p = <<"/", "a">>
    /\ Proppatch(p, body, update, ifHeader)

\* The Depth headers of a MOVE or COPY: none, or one that is not allowed,
\* which is sent with a COPY that must not overwrite.
MoveCopyDepths == {"", "1"}

MoveCopyRequest ==
  \E method \in {"MOVE", "COPY"}, p \in {<<"/", "a">>, <<"/", "b">>},
     dest \in WritePaths \cup {NoDestination}, overwrite \in BOOLEAN,
     depthHdr \in MoveCopyDepths :
    /\ depthHdr # "" => (method = "COPY" /\ ~overwrite /\ dest = <<"/", "b">>)
    /\ MoveCopy(method, p, dest, depthHdr, overwrite, ifHeader)

NextWrite ==
  \/ WriteLockRequest
  \/ WriteUnlockRequest
  \/ PutRequest
  \/ MkcolRequest
  \/ DeleteRequest
  \/ ProppatchRequest
  \/ MoveCopyRequest

WriteInit == DavInitWith(WriteHeaders)

SpecWrite == WriteInit /\ [][NextWrite]_vars

\* --------------------------------------------------- multiplexer: actions
\* incoming_callback: add_client, then client_start_read.
incoming_callback(c) ==
  /\ running
  /\ clients[c].st = "absent"
  /\ clients' = [clients EXCEPT ![c] =
       [NoClient EXCEPT !.st = "reading", !.inTable = TRUE,
                        !.refs = IF variant = "bin" THEN 2 ELSE 0]]
  /\ UNCHANGED <<variant, toSend, accepted, mux_queue, idle_id, flushing,
                 outstanding, transport, failures, demux, peers, delivered,
                 running>>
  /\ UNCHANGED <<davVars, vdVars, clockVars>>

\* g_idle_add (output_queue_idle, q): one more idle source is pending.
g_idle_add(o) == [o EXCEPT !.idle = @ + 1]

\* An output_queue_push that adds an idle source whatever the flags say.
PushSchedulesAlways(idle, flush) == TRUE

\* The test of output_queue_push: it adds an idle source only if none is
\* pending and no flush is outstanding.
PushSchedules(idle, flush) == ~idle /\ ~flush

\* An output_queue_push that puts the element at the head of the queue.
PushOneAtHead(q, e) ==
  [queue |-> <<e>> \o q.queue,
   idle_id |-> q.idle_id \/ PushSchedules(q.idle_id, q.flushing),
   flushing |-> q.flushing,
   outstanding |-> IF PushSchedules(q.idle_id, q.flushing)
                     THEN g_idle_add(q.outstanding) ELSE q.outstanding]

\* output_queue_push of one element.
PushOne(q, e) ==
  [queue |-> Append(q.queue, e),
   idle_id |-> q.idle_id \/ PushSchedules(q.idle_id, q.flushing),
   flushing |-> q.flushing,
   outstanding |-> IF PushSchedules(q.idle_id, q.flushing)
                     THEN g_idle_add(q.outstanding) ELSE q.outstanding]

RECURSIVE PushAll(_, _)
PushAll(q, elems) ==
  IF elems = <<>> THEN q ELSE PushAll(PushOne(q, Head(elems)), Tail(elems))

\* output_queue_push of the elements of one read of client c.
output_queue_push(c) ==
  LET q == PushAll([queue |-> mux_queue, idle_id |-> idle_id,
                    flushing |-> flushing, outstanding |-> outstanding],
                   FrameElems(variant, c))
  IN  /\ mux_queue' = q.queue
      /\ idle_id' = q.idle_id
      /\ outstanding' = q.outstanding

\* client_read_cb: the read of n bytes has finished (0: the peer has closed),
\* or has failed.
client_read_cb(c, n, error) ==
  /\ running
  /\ clients[c].st = "reading"
  /\ IF error THEN
       /\ failures < MaxFailures
       /\ failures' = failures + 1
       /\ clients' =
            LET removed == [remove_client(variant, clients, c) EXCEPT ![c].st = "done"]
            IN  IF variant = "bin" THEN client_unref(removed, c) ELSE removed
       /\ UNCHANGED <<toSend, accepted, mux_queue, idle_id, outstanding>>
     ELSE
       /\ n <= Len(toSend[c])
       /\ (n = 0) <=> (toSend[c] = <<>>)
       /\ clients' = [clients EXCEPT ![c].st = "queued", ![c].size = n,
                                     ![c].buf = SubSeq(toSend[c], 1, n)]
       /\ toSend' = [toSend EXCEPT ![c] = SubSeq(@, n + 1, Len(@))]
       /\ accepted' = [accepted EXCEPT ![c] = @ \o SubSeq(toSend[c], 1, n)]
       /\ output_queue_push(c)
       /\ UNCHANGED failures
  /\ UNCHANGED <<variant, flushing, transport, demux, peers, delivered, running>>
  /\ UNCHANGED <<davVars, vdVars, clockVars>>

\* output_queue_idle.  written: how many bytes g_output_stream_write_all
\* wrote; all of them unless it failed.  An element of a Client that has been
\* freed points into freed memory: the daemon crashes (crash), or the memory
\* still holds what it held and the callback finds nothing to do.
output_queue_idle(written, crash) ==
  /\ running
  /\ outstanding.idle > 0
  /\ idle_id' = FALSE
  /\ IF flushing \/ mux_queue = <<>> THEN
       /\ written = 0 /\ ~crash
       /\ outstanding' = [outstanding EXCEPT !.idle = @ - 1]
       /\ UNCHANGED <<clients, mux_queue, flushing, transport, failures, running>>
     ELSE
       LET e     == Head(mux_queue)
           bytes == ElemBytes(clients, e)
           error == written < Len(bytes)
           freed == clients[e.client].freed
       IN  /\ written <= Len(bytes)
           /\ error => (failures < MaxFailures /\ written <= MaxPartial)
           /\ crash => freed
           /\ mux_queue' = Tail(mux_queue)
           /\ failures' = IF error /\ ~crash THEN failures + 1 ELSE failures
           /\ running' = ~crash
           /\ transport' = IF crash THEN transport
                           ELSE transport \o SubSeq(bytes, 1, written)
           /\ clients' = IF crash \/ freed THEN clients
                         ELSE PushedCb(variant, clients, e, error)
           /\ flushing' = (~crash /\ ~error)
           /\ outstanding' =
                [outstanding EXCEPT !.idle = @ - 1,
                   !.flush = IF ~crash /\ ~error THEN @ + 1 ELSE @]
  /\ UNCHANGED <<variant, toSend, accepted, demux, peers, delivered>>
  /\ UNCHANGED <<davVars, vdVars, clockVars>>

\* output_queue_flush_cb.
output_queue_flush_cb ==
  /\ running
  /\ outstanding.flush > 0
  /\ flushing' = FALSE
  /\ idle_id' = TRUE
  /\ outstanding' =
       IF idle_id THEN [outstanding EXCEPT !.flush = @ - 1]
       ELSE g_idle_add([outstanding EXCEPT !.flush = @ - 1])
  /\ UNCHANGED <<variant, clients, toSend, accepted, mux_queue, transport,
                 failures, demux, peers, delivered, running>>
  /\ UNCHANGED <<davVars, vdVars, clockVars>>

\* The far end of the transport runs the same demultiplexer.  Its reads are
\* g_input_stream_read_all: one finishes when all its bytes have arrived,
\* or fails, or ends short when the transport is closed.
Arrived == Len(transport) - demux.pos

DemuxStep ==
  /\ UNCHANGED <<variant, clients, toSend, accepted, mux_queue, idle_id,
                 flushing, outstanding, transport, running>>
  /\ UNCHANGED <<davVars, vdVars, clockVars>>

\* g_input_stream_read_all_finish: the read that was outstanding is over.
read_all_finish(d) == [d EXCEPT !.reads = @ - 1]

\* g_input_stream_read_all_async on the transport, for the next part of a
\* frame.
read_all_async(d, part) == [d EXCEPT !.phase = part, !.reads = @ + 1]

\* start_mux_read: the id of the next frame is read.
start_mux_read(d) == read_all_async(d, "client")

\* quit: only SIGINT and SIGTERM set quit_service; the main loop is left in
\* every case.
quit(d, sig) ==
  [d EXCEPT !.quit_service = @ \/ sig \in {"SIGINT", "SIGTERM"},
            !.phase = "quit"]

\* The write of demux.buf to the client that mux_data_read_cb starts, and,
\* with it, a read of the transport that the code does not start.
WriteToClientAndRead(d, c) ==
  [d EXCEPT !.phase = "write", !.writes = @ + 1, !.reads = @ + 1, !.to = c]

\* The write of demux.buf to the client that mux_data_read_cb starts:
\* g_output_stream_write_all_async (bin), output_queue_push on the queue of
\* the client (spice).
WriteToClient(d, c) ==
  [d EXCEPT !.phase = "write", !.writes = @ + 1, !.to = c]

\* A read of the transport that fails or ends short, as one of at most
\* MaxFailures failures.
ReadFails(short) ==
  /\ short => failures < MaxFailures
  /\ failures' = IF short THEN failures + 1 ELSE failures

\* mux_client_read_cb: the id has been read, the size is read next.
mux_client_read_cb(short) ==
  /\ demux.phase = "client"
  /\ ReadFails(short)
  /\ IF short THEN demux' = quit(read_all_finish(demux), "-3")
     ELSE /\ Arrived >= 8
          /\ demux' = [read_all_async(read_all_finish(demux), "size") EXCEPT
                         !.pos = @ + 8,
                         !.client = SubSeq(transport, demux.pos + 1, demux.pos + 8)]
  /\ UNCHANGED <<peers, delivered>>
  /\ DemuxStep

\* mux_size_read_cb: the size has been read, the payload is read next.
mux_size_read_cb(short) ==
  /\ demux.phase = "size"
  /\ ReadFails(short)
  /\ IF short THEN demux' = quit(read_all_finish(demux), "-2")
     ELSE /\ Arrived >= 2
          /\ demux' = [read_all_async(read_all_finish(demux), "data") EXCEPT
                         !.pos = @ + 2,
                         !.size = SizeOf(SubSeq(transport, demux.pos + 1, demux.pos + 2))]
  /\ UNCHANGED <<peers, delivered>>
  /\ DemuxStep

\* g_hash_table_lookup (clients, &demux.client): 0 when there is no entry.
LookupClient(table, idBytes) ==
  IF \E c \in table : IdBytes(c) = idBytes
    THEN CHOOSE c \in table : IdBytes(c) = idBytes
    ELSE 0

\* What mux_data_read_cb does with a payload that has been read in full: it
\* is written to the client of the frame, or dropped and the next frame is
\* read.
DemuxPayload(d, c) ==
  IF c = 0 THEN start_mux_read(d) ELSE WriteToClient(d, c)

\* mux_data_read_cb.  A read that failed or ended short leaves the main loop
\* in bin; in spice g_return_if_fail (size == demux.size) returns before
\* anything else is looked at, and no read is outstanding any more.
mux_data_read_cb(short) ==
  /\ demux.phase = "data"
  /\ ReadFails(short)
  /\ IF short THEN
       demux' = IF variant = "bin" THEN quit(read_all_finish(demux), "-1")
                ELSE [read_all_finish(demux) EXCEPT !.phase = "stopped"]
     ELSE
       /\ Arrived >= demux.size
       /\ demux' =
            DemuxPayload(
              [read_all_finish(demux) EXCEPT
                 !.pos = @ + demux.size,
                 !.buf = SubSeq(transport, demux.pos + 1, demux.pos + demux.size)],
              LookupClient(peers, demux.client))
  /\ UNCHANGED <<peers, delivered>>
  /\ DemuxStep

\* The write to the client is over.
WriteFinished(d) == [d EXCEPT !.writes = @ - 1]

\* mux_pushed_client_cb: the write to the client has finished or failed.  A
\* failure removes the client; bin reads the next frame in either case,
\* spice only after a write that succeeded.
mux_pushed_client_cb(error) ==
  /\ demux.phase = "write"
  /\ IF error THEN
       /\ failures < MaxFailures
       /\ failures' = failures + 1
       /\ peers' = peers \ {demux.to}
       /\ demux' = IF variant = "bin" THEN start_mux_read(WriteFinished(demux))
                   ELSE [WriteFinished(demux) EXCEPT !.phase = "stopped"]
       /\ UNCHANGED delivered
     ELSE
       /\ delivered' = [delivered EXCEPT ![demux.to] = @ \o demux.buf]
       /\ demux' = start_mux_read(WriteFinished(demux))
       /\ UNCHANGED <<failures, peers>>
  /\ DemuxStep

\* signal_handler: SIGINT has been received while the main loop runs.  The
\* signal counts as one of the MaxFailures disturbances of a run.
signal_handler ==
  /\ demux.phase \notin {"quit", "exited"}
  /\ failures < MaxFailures
  /\ failures' = failures + 1
  /\ demux' = quit(demux, "SIGINT")
  /\ UNCHANGED <<peers, delivered>>
  /\ DemuxStep

\* run_service, from the return of g_main_loop_run on, and the loop of main
\* around it: what is outstanding is cancelled and the table of clients is
\* freed; the process ends if quit_service is set, and else run_service
\* starts again with a new table and reads the transport.
run_service ==
  /\ demux.phase = "quit"
  /\ peers' = {}
  /\ demux' = IF demux.quit_service
                THEN [demux EXCEPT !.phase = "exited", !.reads = 0, !.writes = 0]
                ELSE start_mux_read([demux EXCEPT !.reads = 0, !.writes = 0])
  /\ UNCHANGED <<failures, delivered>>
  /\ DemuxStep

\* The daemon, and the demultiplexer at the far end.
NextMux ==
  \/ \E c \in ClientIds : incoming_callback(c)
  \/ \E c \in ClientIds, n \in 0..MaxBytes, error \in BOOLEAN :
       client_read_cb(c, n, error)
  \/ \E written \in 0..(10 + MaxBytes), crash \in BOOLEAN :
       output_queue_idle(written, crash)
  \/ output_queue_flush_cb
  \/ \E short \in BOOLEAN : mux_client_read_cb(short)
  \/ \E short \in BOOLEAN : mux_size_read_cb(short)
  \/ \E short \in BOOLEAN : mux_data_read_cb(short)
  \/ \E error \in BOOLEAN : mux_pushed_client_cb(error)
  \/ signal_handler
  \/ run_service

MuxInit == DavStart({NoIf}, {FALSE}) /\ MuxStart({"bin", "spice"}) /\ VdStart /\ ClockStart

SpecMux == MuxInit /\ [][NextMux]_vars

\* ------------------------------------------------------- claims on locking
\* The registry keys that name the resource of `path' or one of its
\* ancestors.
Carriers(path) == { k \in Keys : IsUnder(FileOf(path), FileOf(k)) }

HoldsExclusive(reg, path) ==
  \E k \in Carriers(path) : \E i \in 1..Len(reg[k]) : reg[k][i].scope = ScopeExclusive

HoldsAny(reg, path) == \E k \in Carriers(path) : reg[k] # <<>>

HoldsToken(reg, key, token) == \E i \in 1..Len(reg[key]) : reg[key][i].token = token

\* The step is a LOCK request that made a new lock (it drew a token).
NewLockStep == nextTok' = nextTok + 1

\* C1: a LOCK that creates a lock on P is refused with 423, attaching
\* nothing, if P or an ancestor of P carries an exclusive lock, or if the new
\* lock is exclusive and P or an ancestor carries any lock; in every other
\* case the new lock is attached to P.
C1_LockCompatibility ==
  [][ NewLockStep =>
        IF \/ HoldsExclusive(paths, last'.path)
           \/ (last'.scope = ScopeExclusive /\ HoldsAny(paths, last'.path))
          THEN last'.status = 423 /\ paths' = paths
          ELSE HoldsToken(paths', PathKey(last'.path), last'.token) ]_vars

\* C2: in every state reached through LOCK and UNLOCK, a path that carries
\* an exclusive lock carries no other lock, and a path that carries a shared
\* lock carries only shared locks.
C2_ScopeInvariant ==
  \A k \in Keys :
    /\ (\E i \in 1..Len(paths[k]) : paths[k][i].scope = ScopeExclusive)
         => Len(paths[k]) = 1
    /\ (\E i \in 1..Len(paths[k]) : paths[k][i].scope = ScopeShared)
         => \A i \in 1..Len(paths[k]) : paths[k][i].scope = ScopeShared

\* The last request was a LOCK that made a lock and answered 200 or 201.
LockSucceeded(r) ==
  r.method = "LOCK" /\ r.body # "empty" /\ r.status \in {200, 201}

\* C4: when a LOCK at depth 0 on p succeeds and returns token t, an
\* immediately following UNLOCK of p with t returns 204, and a second UNLOCK
\* of p with t returns 409.
C4_LockThenUnlock ==
  [][ /\ ( /\ LockSucceeded(last) /\ last.depth = "0"
           /\ last'.method = "UNLOCK"
           /\ last'.path = last.path /\ last'.token = last.token )
         => last'.status = 204
      /\ ( /\ last.method = "UNLOCK" /\ last.status = 204
           /\ last'.method = "UNLOCK"
           /\ last'.path = last.path /\ last'.token = last.token )
         => last'.status = 409 ]_vars

\* ------------------------------------------------- claims on the If header
\* The request of r ran the If precondition check.
IfChecked(r) == r.ifStatus # 0

\* The path a group of r's If header binds its conditions to.
BoundPath(r, group) == IF r.hdr.tagged THEN group.url ELSE r.path

\* A condition holds on a path, Not applied.
CondHolds(reg, tree, path, cond) ==
  LET v == IF cond.kind = "token" THEN check_token(reg, path, cond.val)
           ELSE check_etag(tree, path, cond.val)
  IN  IF cond.neg THEN ~v ELSE v

ListHolds(reg, tree, path, list) ==
  \A i \in 1..Len(list) : CondHolds(reg, tree, path, list[i])

\* Some list of the header of r holds.
SomeListHolds(reg, tree, r) ==
  \E g \in 1..Len(r.hdr.groups) :
    \E l \in 1..Len(r.hdr.groups[g].lists) :
      ListHolds(reg, tree, BoundPath(r, r.hdr.groups[g]), r.hdr.groups[g].lists[l])

\* C5: the If precondition check answers 412 when the If header is present
\* and evaluates false, 423 when there is no If header and the request path
\* or one of its ancestors carries a lock (a COPY request skips this lock
\* check), and 200 otherwise.
C5_CheckIfStatus ==
  [][ IfChecked(last') =>
        last'.ifStatus =
          IF last'.hdr.present /\ ~eval_if(paths, fs, [path |-> last'.path, locks |-> <<>>],
                                           last'.hdr).ok
            THEN 412
          ELSE IF ~last'.hdr.present /\ last'.method # "COPY"
                    /\ HoldsAny(paths, last'.path)
            THEN 423
          ELSE 200 ]_vars

\* The If header of r is one list of one <token> condition, without Not.
OneTokenHeader(r) ==
  /\ r.hdr.present
  /\ Len(r.hdr.groups) = 1
  /\ Len(r.hdr.groups[1].lists) = 1
  /\ Len(r.hdr.groups[1].lists[1]) = 1
  /\ r.hdr.groups[1].lists[1][1].kind = "token"
  /\ ~r.hdr.groups[1].lists[1][1].neg

\* C6: a <token> condition succeeds if and only if a lock with that token
\* exists on the path the condition is bound to (the tagged URL, or the
\* request path when untagged), or on an ancestor whose lock covers it; the
\* token DAV:no-lock always fails.  Seen on the headers that are one such
\* condition: the check answers 412 exactly when the condition fails.
C6_TokenCondition ==
  [][ (IfChecked(last') /\ OneTokenHeader(last')) =>
        LET group == last'.hdr.groups[1]
            token == group.lists[1][1].val
            bound == BoundPath(last', group)
        IN  (last'.ifStatus # 412) <=>
              /\ token # NoLockToken
              /\ \E k \in Carriers(bound) : HoldsToken(paths, k, token) ]_vars

\* C7: an If header evaluates true (the check does not answer 412) if and
\* only if at least one of its lists is true, and a list is true if and only
\* if every one of its conditions, after applying Not, is true.
C7_OrOfAnds ==
  [][ (IfChecked(last') /\ last'.hdr.present) =>
        ((last'.ifStatus # 412) <=> SomeListHolds(paths, fs, last')) ]_vars

\* C7, its case: a PROPPATCH (which leaves locks and files as they are) whose
\* header has a first list that fails and a second list of two conditions
\* that holds, and the check passed the header.
C7_Witness ==
  /\ last.method = "PROPPATCH" /\ IfChecked(last) /\ last.ifStatus # 412
  /\ last.hdr.present /\ ~last.hdr.tagged
  /\ Len(last.hdr.groups[1].lists) = 2
  /\ ~ListHolds(paths, fs, last.path, last.hdr.groups[1].lists[1])
  /\ Len(last.hdr.groups[1].lists[2]) = 2
  /\ ListHolds(paths, fs, last.path, last.hdr.groups[1].lists[2])

\* ------------------------------------------------ claims on write requests
PathA == <<"/", "a">>

\* An exclusive lock is held on /a.
ExclusiveOnA(reg) ==
  \E i \in 1..Len(reg[PathA]) : reg[PathA][i].scope = ScopeExclusive

\* The If header of r names the token in one of its conditions.
Submits(r, token) ==
  \E g \in 1..Len(r.hdr.groups) :
    \E l \in 1..Len(r.hdr.groups[g].lists) :
      \E c \in 1..Len(r.hdr.groups[g].lists[l]) :
        /\ r.hdr.groups[g].lists[l][c].kind = "token"
        /\ r.hdr.groups[g].lists[l][c].val = token

\* r submits the token of no lock held on /a.
SubmitsNoTokenOfA(reg, r) ==
  \A i \in 1..Len(reg[PathA]) : ~Submits(r, reg[PathA][i].token)

AtOrBelowA(path) == IsUnder(FileOf(path), FileOf(PathA))

\* r is a write request on /a or below it: a PUT, DELETE, MKCOL, PROPPATCH
\* or MOVE of such a path, or a MOVE or COPY to such a destination.
WritesA(r) ==
  \/ r.method \in {"PUT", "DELETE", "MKCOL", "PROPPATCH", "MOVE"} /\ AtOrBelowA(r.path)
  \/ r.method \in {"MOVE", "COPY"} /\ r.dest # NoDestination /\ AtOrBelowA(r.dest)

RefusedUnchecked(r) ==
  \/ r.method = "MKCOL" /\ r.body = "body"
  \/ r.method = "PROPPATCH" /\ r.body = "unparsable"
  \/ r.method \in {"MOVE", "COPY"} /\ r.dest = NoDestination

NotSubmitted(r, lock) == ~Submits(r, lock.token)

\* C8: a MOVE or COPY whose destination, or an ancestor of it, carries a lock
\* the caller did not submit is answered 423 and changes no file.
C8_DestinationLocked ==
  [][ ( /\ last'.method \in {"MOVE", "COPY"} /\ last'.dest # NoDestination
        /\ \E k \in Carriers(last'.dest) :
             \E i \in 1..Len(paths[k]) : NotSubmitted(last', paths[k][i]) )
        => (last'.status = 423 /\ fs' = fs) ]_vars

\* ------------------------------------------------ claims on the multiplexer
IsPrefix(s, t) == Len(s) <= Len(t) /\ s = SubSeq(t, 1, Len(s))

\* C9: the demultiplexer delivers to each client that client's bytes, in the
\* order the multiplexer accepted them, byte for byte: at every moment what
\* a client has been delivered is the beginning of what was accepted from it.
C9_ByteForByte ==
  \A c \in ClientIds : IsPrefix(delivered[c], accepted[c])

\* The frames client c can emit next when `sent' of its bytes are in frames
\* already: its id, a size, and that many of its accepted bytes that follow.
NextFrames(c, sent) ==
  { IdBytes(c) \o SizeBytes(n) \o SubSeq(accepted[c], Len(sent) + 1, Len(sent) + n) :
      n \in 0..(Len(accepted[c]) - Len(sent)) }

\* bytes is a run of whole frames, each carrying the next bytes of its
\* client, and then at most the beginning of one more frame.
RECURSIVE Framed(_, _)
Framed(bytes, sent) ==
  \/ bytes = <<>>
  \/ \E c \in ClientIds : \E f \in NextFrames(c, sent[c]) :
       \/ IsPrefix(bytes, f)
       \/ /\ IsPrefix(f, bytes)
          /\ Framed(SubSeq(bytes, Len(f) + 1, Len(bytes)),
                    [sent EXCEPT ![c] = @ \o SubSeq(f, 11, Len(f))])

\* C10: on the transport every frame (client id, size, payload) is
\* contiguous, frames of different clients meet at frame boundaries only,
\* and the payloads of one client are its bytes in FIFO order.
C10_FramesContiguous ==
  Framed(transport, [c \in ClientIds |-> <<>>])

\* The step ends the handling of a frame of size 0 that names a client of
\* the table: the write of its (empty) payload to the client has finished.
ZeroFrameHandled ==
  /\ demux.phase = "write" /\ demux.size = 0
  /\ demux'.writes = demux.writes - 1

\* C11: when a frame of size 0 is received from the transport, the client
\* its client_id names is closed and freed: it is in the table no more once
\* the frame has been handled.
C11_ZeroFrameCloses ==
  [][ ZeroFrameHandled => demux.to \notin peers' ]_vars


\* C12: reads of the transport are serialized.  At most one read of the
\* transport is outstanding at any time, and while the payload of a frame is
\* being written to its client no read is outstanding, so that demux.buf is
\* not refilled under the write.
C12_ReadsSerialized ==
  /\ demux.reads <= 1
  /\ demux.writes <= 1
  /\ demux.writes > 0 => demux.reads = 0

\* A payload that is not empty is being written to its client.
C12_Witness ==
  /\ demux.writes = 1
  /\ demux.buf # <<>>
  /\ demux.phase = "write"


\* The elements of the transport queue that belong to client c.
ElementsOf(c) == { i \in 1..Len(mux_queue) : mux_queue[i].client = c }

\* C13: the reads of a local client are serialized with its frames.  While
\* a read is outstanding on the socket of a client, no element of a frame of
\* that client is waiting in the transport queue: the read that follows a
\* frame is issued after id, size and payload have all been written.
C13_ClientReadsSerialized ==
  \A c \in ClientIds : clients[c].st = "reading" => ElementsOf(c) = {}

\* A client is read again after a frame of its bytes has been written.
C13_Witness ==
  \E c \in ClientIds :
    /\ clients[c].st = "reading"
    /\ accepted[c] # <<>>
    /\ toSend[c] # <<>>


\* C14: an output queue has at most one write and at most one flush
\* outstanding.  A write is what one pending idle source performs, so at
\* most one idle source is pending, and at most one flush.
C14_OneWriteOneFlush ==
  /\ outstanding.idle <= 1
  /\ outstanding.flush <= 1

\* An element is pushed while the flush of the one before it is outstanding.
C14_Witness ==
  /\ outstanding.flush = 1
  /\ flushing
  /\ mux_queue # <<>>


\* The step is the callback of a read of the transport that failed or ended
\* short.
TransportReadFailed ==
  /\ demux.phase \in {"client", "size", "data"}
  /\ demux'.reads = demux.reads - 1
  /\ failures' = failures + 1

\* C15: a read error or a short read on the transport terminates the
\* process.  The callback of such a read leaves the main loop, and once the
\* main loop has been left without quit_service being set, which only a read
\* that failed brings about, the daemon does not go back to serving: the
\* process ends.
C15_ReadFailureTerminates ==
  [][ /\ TransportReadFailed => demux'.phase = "quit"
      /\ (demux.phase = "quit" /\ ~demux.quit_service)
           => demux'.phase \in {"quit", "exited"} ]_vars


\* The step is client_read_cb with an error on the socket of client c.
ClientReadFailed(c) ==
  /\ clients[c].st = "reading"
  /\ clients'[c].st = "done"

CopyNoOverwrite ==
  /\ last'.method = "COPY" /\ ~last'.overwrite
  /\ last'.dest # NoDestination
  /\ last'.ifStatus = 200 /\ last'.status # 423
  /\ fs[FileOf(last'.path)] # "none"
  /\ fs[FileOf(last'.dest)] # "none"

\* C17: a COPY with Overwrite: F to a destination that exists is answered
\* 412 and changes no file, so that the same request, sent again, meets the
\* same files and gets the same answer.
C17_CopyNoOverwrite ==
  [][ CopyNoOverwrite => (last'.status = 412 /\ fs' = fs) ]_vars


\* The step is a PUT that passed its precondition check.
PutChecked == last'.method = "PUT" /\ last'.ifStatus = 200

\* The status C18 states for a PUT on the files of `tree'.
PutStatus(tree, r) == IF tree[FileOf(r.path)] = "none" THEN 201 ELSE 200

\* C18, as stated: a PUT that passes its precondition check is answered 201
\* when the target did not exist before the request and 200 when it did, and
\* that is the status of the final response.
C18_PutStatus ==
  [][ PutChecked => last'.status = PutStatus(fs, last') ]_vars

\* The target of r cannot be opened for replacement: it is a directory, or
\* it does not exist and its parent is no directory.
CannotReplace(tree, r) ==
  \/ tree[FileOf(r.path)] = "dir"
  \/ tree[FileOf(r.path)] = "none" /\ ParentKind(tree, FileOf(r.path)) # "dir"

\* C18, amended: a PUT that passes its precondition check is answered 500
\* when its target cannot be opened for replacement or the write of a chunk
\* of its body fails; otherwise it is answered 201 when the target did not
\* exist before the request and 200 when it did.  That status is the one of
\* the final response.
C18_PutStatusAmended ==
  [][ PutChecked =>
        last'.status =
          IF CannotReplace(fs, last') \/ last'.body = "write-error"
            THEN 500 ELSE PutStatus(fs, last') ]_vars

\* C18, its case: a PUT whose chunks were all written has replaced a file
\* that existed, and was answered 200.
C18_Witness ==
  /\ last.method = "PUT" /\ last.ifStatus = 200 /\ last.body = ""
  /\ last.status = 200
  /\ fs[FileOf(last.path)] = "file"


\* ------------------------------------------------------- claims on DELETE
\* The step is a DELETE that passed its precondition check.
DeleteDone == last'.method = "DELETE" /\ last'.ifStatus = 200

\* C19: the failures of a recursive DELETE are recorded as entries by path;
\* the response is a 207 multistatus exactly when at least one entry has
\* been recorded once the top-level delete has been attempted, and 204 when
\* none has been.
C19_DeleteMultistatus ==
  [][ DeleteDone =>
        last'.status = IF last'.mstatus # {} THEN 207 ELSE 204 ]_vars


\* ---------------------------------------------------- claims on PROPPATCH
\* The step is a PROPPATCH whose body was parsed and that passed its
\* precondition check.
ProppatchDone == last'.method = "PROPPATCH" /\ last'.ifStatus = 200

\* The response of r carries the property `name' stamped with `status'.
Stamped(r, name, status) ==
  \E j \in 1..Len(r.props) :
    r.props[j].name = name /\ r.props[j].status = status

\* C20: in the multistatus of a PROPPATCH every property named by a set or
\* remove instruction appears with the status that its own instruction
\* produced.
C20_PropertiesStamped ==
  [][ ProppatchDone =>
        \A i \in 1..Len(last'.update) :
          \A k \in 1..Len(last'.update[i].names) :
            Stamped(last', last'.update[i].names[k],
                    set_attr(fs, FileOf(last'.path), last'.update[i])) ]_vars


\* ------------------------------------------------ virtual directories: tree
\* How many of the references to an object are held by the lists of children.
ListRefs(tree, n) ==
  Cardinality({ <<m, i>> \in NodeIds \X (1..MaxNodes) :
                  /\ tree[m].state = "live"
                  /\ i <= Len(tree[m].children)
                  /\ tree[m].children[i] = VirtualFile(n) })

\* The caller of the library holds a reference to the object.
Held(tree, n) ==
  tree[n].state = "live" /\ tree[n].ref_count > ListRefs(tree, n)

\* parent_gone_cb, for every object that has a weak reference on n.
WeakNotify(tree, n) ==
  [m \in NodeIds |->
     IF tree[m].state = "live" /\ tree[m].parent = n
       THEN [tree[m] EXCEPT !.dummy = TRUE, !.parent = 0]
       ELSE tree[m]]

\* g_object_unref of a PhodavVirtualDir: the object is disposed and
\* finalized when its last reference goes.
RECURSIVE g_object_unref(_, _)

\* g_list_free_full (children, g_object_unref): a real child is a GFile of
\* its own, which the tree does not look at again.
RECURSIVE UnrefChildren(_, _)
UnrefChildren(tree, list) ==
  IF list = <<>> THEN tree
  ELSE UnrefChildren(IF Head(list).kind = "virtual"
                       THEN g_object_unref(tree, Head(list).node) ELSE tree,
                     Tail(list))

\* phodav_virtual_dir_dispose, and the weak references the dispose of
\* GObject notifies.
phodav_virtual_dir_dispose(tree, n) ==
  WeakNotify(UnrefChildren([tree EXCEPT ![n].parent = 0, ![n].dummy = TRUE,
                                        ![n].children = <<>>],
                           tree[n].children),
             n)

g_object_unref(tree, n) ==
  IF tree[n].ref_count > 1 THEN [tree EXCEPT ![n].ref_count = @ - 1]
  ELSE [phodav_virtual_dir_dispose(tree, n) EXCEPT
          ![n].state = "freed", ![n].ref_count = 0]

\* What a call on the tree leaves in vlast.
Called(op, n, path, result) ==
  /\ vlast' = [op |-> op, node |-> n, path |-> path, result |-> result]
  /\ UNCHANGED <<davVars, muxVars, clockVars>>

\* The object phodav_virtual_dir_new_dir makes: the caller and the list of
\* the parent have one reference each.
NewDir(path, parent) ==
  [NoNode EXCEPT !.state = "live", !.path = path, !.parent = parent,
                 !.ref_count = 2]

\* phodav_virtual_dir_new_dir (root, path, error), once the parent has been
\* looked up: f is what phodav_virtual_dir_find_child_recursive returned for
\* the directory name, m the object g_object_new makes.
NewDirIn(tree, f, path, m) ==
  IF f = NullFile \/ ~PHODAV_IS_VIRTUAL_DIR(f) THEN tree
  ELSE IF phodav_virtual_dir_find_direct_child(tree, f.node, g_path_get_basename(path))
            # NullFile
    THEN tree
  ELSE [tree EXCEPT ![m] = NewDir(path, f.node),
                    ![f.node].children = <<VirtualFile(m)>> \o @]

\* phodav_virtual_dir_new_dir (root, path, error): the tree it leaves.
new_dir(tree, root, path, m) ==
  IF g_path_get_dirname(path) = <<".">> THEN tree
  ELSE NewDirIn(tree,
                phodav_virtual_dir_find_child_recursive(
                  tree, root, g_path_get_dirname(path)).file,
                path, m)

\* The next object g_object_new makes.
FreeNode(tree) == CHOOSE m \in NodeIds :
                    tree[m].state = "none" /\ \A k \in NodeIds : tree[k].state = "none" => m <= k

\* phodav_virtual_dir_new_dir, called with the root.
phodav_virtual_dir_new_dir(path) ==
  /\ Held(nodes, 1)
  /\ \E m \in NodeIds : nodes[m].state = "none"
  /\ nodes' = new_dir(nodes, 1, path, FreeNode(nodes))
  /\ Called("new_dir", 1, path,
            IF nodes' = nodes THEN NullFile ELSE VirtualFile(FreeNode(nodes)))

\* phodav_virtual_dir_attach_real_child (parent, child): the tree it leaves.
attach_real_child(tree, n, f) ==
  IF phodav_virtual_dir_find_direct_child(tree, n, f[Len(f)]) # NullFile
    THEN tree
    ELSE [tree EXCEPT ![n].children = <<RealFile(f)>> \o @]

phodav_virtual_dir_attach_real_child(n, f) ==
  /\ Held(nodes, n)
  /\ nodes' = attach_real_child(nodes, n, f)
  /\ Called("attach_real_child", n, <<>>, RealFile(f))

\* phodav_virtual_dir_root_set_real (root, real_root_path): the tree it
\* leaves.  The path is that of the share (real), or NULL.
root_set_real(tree, n, real) ==
  IF is_root(tree[n]) THEN [tree EXCEPT ![n].real_root = real] ELSE tree

phodav_virtual_dir_root_set_real(n, real) ==
  /\ Held(nodes, n)
  /\ nodes' = root_set_real(nodes, n, real)
  /\ Called("root_set_real", n, <<>>, NullFile)

\* The caller drops its reference to an object.
Unref(n) ==
  /\ Held(nodes, n)
  /\ nodes' = g_object_unref(nodes, n)
  /\ Called("unref", n, <<>>, NullFile)

\* The real files the model has a place for.
InModel(file) == file.kind = "real" => file.file \in Files

\* g_file_resolve_relative_path on an object the caller holds; the caller
\* drops the reference it gets.
Resolve(n, relative_path) ==
  /\ Held(nodes, n)
  /\ InModel(phodav_virtual_dir_resolve_relative_path(nodes, n, relative_path))
  /\ UNCHANGED nodes
  /\ Called("resolve", n, relative_path,
            phodav_virtual_dir_resolve_relative_path(nodes, n, relative_path))

\* -------------------------------------------- virtual directories: requests
\* g_file_get_child (handler_get_file (handler), path + 1), for a handler
\* whose file is the root of the tree.
HandlerFile(tree, path) ==
  phodav_virtual_dir_resolve_relative_path(tree, 1, Tail(path))

\* phodav_check_if on a server where no lock was ever taken, for a request
\* without an If header: nothing is evaluated, no lock is found, the answer
\* is 200 and no lock is submitted.
CheckIfUnlocked == [status |-> 200, locks |-> <<>>]

\* do_mkcol_file on any GFile: PhodavVirtualDir has no make_directory, and
\* g_file_make_directory fails with G_IO_ERROR_NOT_SUPPORTED.
MkcolFile(disk, file) ==
  IF file.kind = "real" THEN do_mkcol_file(disk, file.file)
  ELSE [status |-> 403, tree |-> disk]

\* phodav_method_mkcol of a server rooted in the tree.
VdMkcol(path) ==
  /\ alive
  /\ nodes[1].state = "live"
  /\ InModel(HandlerFile(nodes, path))
  /\ IF Refused("MKCOL") THEN WriteReply(Request("MKCOL", path), 0, 403, fs)
     ELSE Checked(Request("MKCOL", path), CheckIfUnlocked,
                  MkcolFile(fs, HandlerFile(nodes, path)))

\* put_start on any GFile: PhodavVirtualDir has no replace.
PutFile(disk, file) ==
  IF file.kind = "real" THEN put_start(disk, file.file)
  ELSE [status |-> 500, tree |-> disk]

\* phodav_method_put of a server rooted in the tree, with a body whose
\* chunks are all written.
VdPut(path) ==
  /\ alive
  /\ nodes[1].state = "live"
  /\ InModel(HandlerFile(nodes, path))
  /\ IF readonly THEN WriteReply(Request("PUT", path), 0, 403, fs)
     ELSE Checked(Request("PUT", path), CheckIfUnlocked,
                  PutFile(fs, HandlerFile(nodes, path)))

\* g_build_path ("/", path, name, NULL), for each name of a list in turn.
RECURSIVE BuildPath(_, _)
BuildPath(partial, names) ==
  IF names = <<>> THEN partial
  ELSE BuildPath(g_build_path(partial, Head(names)), Tail(names))

\* The names phodav_virtual_dir_enumerator_next_file returns for a list of
\* children, up to the first child g_file_query_info fails for: the loop
\* of phodav_delete_file ends there.
RECURSIVE ListNames(_, _, _)
ListNames(tree, disk, list) ==
  IF list = <<>> THEN <<>>
  ELSE IF g_file_query_info(tree, disk, Head(list)) = "not-found" THEN <<>>
  ELSE <<ChildBasename(tree, Head(list))>> \o ListNames(tree, disk, Tail(list))

\* Every child of the list has answered g_file_query_info.
ListDone(tree, disk, list) ==
  \A i \in 1..Len(list) : g_file_query_info(tree, disk, list[i]) # "not-found"

\* The names the enumerator of the real root returns.
RECURSIVE SetNames(_)
SetNames(files) ==
  IF files = {} THEN <<>>
  ELSE <<(CHOOSE f \in files : TRUE)[1]>>
         \o SetNames(files \ {CHOOSE f \in files : TRUE})

\* The names g_file_enumerate_children gives phodav_delete_file for a
\* PhodavVirtualDir: the children, then what the real root holds.
VirtualNames(tree, disk, n) ==
  ListNames(tree, disk, tree[n].children)
    \o (IF tree[n].real_root /\ ListDone(tree, disk, tree[n].children)
          THEN SetNames(Children(disk, RootFile)) ELSE <<>>)

\* phodav_delete_file on any GFile: [status, tree, entries], the entries
\* being the paths mstatus has a response for.  A PhodavVirtualDir has no
\* delete: g_file_delete fails once its children have been dealt with.
RECURSIVE GFileDelete(_, _, _, _)
RECURSIVE GFileDeleteNames(_, _, _, _, _)
GFileDeleteReal(path, f, r) ==
  [status  |-> r.status,
   tree    |-> r.tree,
   entries |-> { BuildPath(path, SubSeq(g, Len(f) + 1, Len(g))) : g \in r.entries }]

GFileDeleteMerge(acc, r) ==
  [status |-> 403, tree |-> r.tree, entries |-> acc.entries \cup r.entries]

GFileDeleteNames(tree, acc, path, n, names) ==
  IF names = <<>>
    THEN [acc EXCEPT !.entries = @ \cup {path}]
  ELSE GFileDeleteNames(
         tree,
         GFileDeleteMerge(acc,
           GFileDelete(tree, acc.tree, g_build_path(path, Head(names)),
                       phodav_virtual_dir_resolve_relative_path(tree, n, Head(names)))),
         path, n, Tail(names))

GFileDelete(tree, disk, path, file) ==
  IF file.kind = "real"
    THEN GFileDeleteReal(path, file.file,
                         phodav_delete_file(disk, file.file, TRUE, NoFailure))
  ELSE IF file.kind = "dummy"
    THEN [status |-> 403, tree |-> disk, entries |-> {path}]
  ELSE GFileDeleteNames(tree, [status |-> 403, tree |-> disk, entries |-> {}],
                        path, file.node, VirtualNames(tree, disk, file.node))

\* phodav_method_delete of a server rooted in the tree.
VdDelete(path) ==
  /\ alive
  /\ nodes[1].state = "live"
  /\ InModel(HandlerFile(nodes, path))
  /\ IF Refused("DELETE") THEN WriteReply(Request("DELETE", path), 0, 403, fs)
     ELSE DeleteChecked(Request("DELETE", path), CheckIfUnlocked,
                        GFileDelete(nodes, fs, path, HandlerFile(nodes, path)))

\* phodav_method_movecopy after its call of phodav_check_if, on any two
\* GFiles, where the destination has no lock: 403 if one of them is a
\* PhodavVirtualDir.
CopyFile(disk, overwrite, file, dest_file) ==
  IF PHODAV_IS_VIRTUAL_DIR(file) \/ PHODAV_IS_VIRTUAL_DIR(dest_file)
    THEN [status |-> 403, tree |-> disk]
  ELSE do_movecopy_file(disk, TRUE, "", overwrite, file.file, dest_file.file)

\* phodav_method_movecopy of a server rooted in the tree, for a COPY.
VdCopy(path, dest, overwrite) ==
  /\ alive
  /\ nodes[1].state = "live"
  /\ InModel(HandlerFile(nodes, path))
  /\ InModel(HandlerFile(nodes, dest))
  /\ (HandlerFile(nodes, path).kind = "real" /\ HandlerFile(nodes, dest).kind = "real")
       => HasRoom(fs, TRUE, HandlerFile(nodes, path).file, HandlerFile(nodes, dest).file)
  /\ IF Refused("COPY")
       THEN WriteReply([Request("COPY", path) EXCEPT !.dest = dest, !.overwrite = overwrite],
                       0, 403, fs)
     ELSE Checked([Request("COPY", path) EXCEPT !.dest = dest, !.overwrite = overwrite],
                  CheckIfUnlocked,
                  CopyFile(fs, overwrite, HandlerFile(nodes, path),
                                 HandlerFile(nodes, dest)))

\* The paths phodav_virtual_dir_new_dir is called with.
NewDirPaths == { <<"/">>, <<"/", "b">>, <<"/", "b", "/", "b">>, <<"b">> }

\* The real directory that is attached: a of the share.
RealChildren == { << <<"a">> >> }

\* The request paths of the client.
VdPaths ==
  { <<"/", "a">>, <<"/", "b">>, <<"/", "b", "/", "a">>,
    <<"/", "b", "/", "a", "/", "b">>, <<"/", "b", "/", "b">> }

\* The relative paths that are resolved.
RelativePaths == { Tail(p) : p \in VdPaths } \cup { <<>>, <<"b", "/", "/", "a">> }

NextVirtual ==
  \/ \E p \in NewDirPaths : phodav_virtual_dir_new_dir(p)
  \/ \E n \in NodeIds, f \in RealChildren : phodav_virtual_dir_attach_real_child(n, f)
  \/ \E real \in BOOLEAN : phodav_virtual_dir_root_set_real(1, real)
  \/ \E n \in NodeIds : Unref(n)
  \/ \E n \in NodeIds, p \in RelativePaths : Resolve(n, p)

\* The shares a tree is made over: an empty one, and one with the
\* directories a and b, b holding the file b.
VdDisks ==
  { InitTree,
    [f \in Files |-> IF f = << <<"b">>, <<"b">> >> THEN "file"
                     ELSE IF Len(f) <= 1 THEN "dir" ELSE "none"] }

\* A program that has called phodav_virtual_dir_new_root.
VirtualInit ==
  /\ paths = [k \in Keys |-> <<>>]
  /\ nextTok = 0
  /\ fs \in VdDisks
  /\ readonly = FALSE
  /\ alive = TRUE
  /\ last = NoRequest
  /\ ifHeader = NoIf
  /\ MuxStart({"bin"})
  /\ VdStart /\ ClockStart

SpecVirtual == VirtualInit /\ [][NextVirtual]_vars

\* The tree main of tests/virtual-dir-server.c hands to the server: the
\* root with the share as its real root, the virtual directory /b in it,
\* and the real directory a attached to /b.
ServerTree ==
  g_object_unref(
    attach_real_child(
      new_dir(root_set_real([n \in NodeIds |->
                               IF n = 1 THEN phodav_virtual_dir_new_root ELSE NoNode],
                            1, TRUE),
              1, <<"/", "b">>, 2),
      2, << <<"a">> >>),
    2)

NextVirtualDav ==
  \/ \E p \in VdPaths : VdMkcol(p)
  \/ \E p \in VdPaths : VdPut(p)
  \/ \E p \in VdPaths : VdDelete(p)
  \/ \E p \in {<<"/", "a">>, <<"/", "b">>, <<"/", "b", "/", "a">>},
        dest \in VdPaths, overwrite \in BOOLEAN : VdCopy(p, dest, overwrite)

\* The server of tests/virtual-dir-server.c once it listens.
VirtualDavInit ==
  /\ DavStart({NoIf}, {FALSE})
  /\ MuxStart({"bin"})
  /\ nodes = ServerTree
  /\ vlast = [op |-> "new_root", node |-> 1, path |-> <<>>, result |-> VirtualFile(1)]
  /\ ClockStart

SpecVirtualDav == VirtualDavInit /\ [][NextVirtualDav]_vars

\* ------------------------------------------------------------------- C21
\* The real files that are attached to the virtual directories of the tree.
GraftedFiles(tree) ==
  { tree[n].children[i].file :
      <<n, i>> \in { <<m, k>> \in NodeIds \X (1..MaxNodes) :
                       /\ tree[m].state = "live"
                       /\ k <= Len(tree[m].children)
                       /\ tree[m].children[k].kind = "real" } }

\* The request that has just been answered names a virtual directory, or a
\* name inside one that the tree has no child for; a COPY does so with its
\* path or with its destination.
NamesVirtual(req) ==
  \/ PHODAV_IS_VIRTUAL_DIR(HandlerFile(nodes, req.path))
  \/ /\ req.method = "COPY"
     /\ PHODAV_IS_VIRTUAL_DIR(HandlerFile(nodes, req.dest))

\* C21: a MKCOL, COPY, PUT or DELETE that names a virtual directory or an
\* entry directly inside one is refused (403, and 500 for a PUT) and
\* creates, overwrites, copies and deletes nothing: the virtual directories
\* and the real entries placed in them are after the request what they
\* were before it.
C21_VirtualUntouched ==
  [][NamesVirtual(last') =>
       /\ last'.status = IF last'.method = "PUT" THEN 500 ELSE 403
       /\ nodes' = nodes
       /\ \A f \in GraftedFiles(nodes) : fs'[f] = fs[f]]_vars

\* ------------------------------------------------------------ C22 and C23
\* The child of a GFile with that name, NULL if it is a virtual directory
\* without such a child; a real file has whatever child it is asked for.
ChildNamed(tree, file, name) ==
  IF file.kind = "real" THEN RealFile(Append(file.file, name))
  ELSE IF \E i \in 1..Len(tree[file.node].children) :
            ChildBasename(tree, tree[file.node].children[i]) = name
    THEN tree[file.node].children[
           CHOOSE i \in 1..Len(tree[file.node].children) :
             /\ ChildBasename(tree, tree[file.node].children[i]) = name
             /\ \A j \in 1..(i - 1) :
                  ChildBasename(tree, tree[file.node].children[j]) # name]
  ELSE NullFile

\* The node reached from file along the segments, NULL as soon as a segment
\* matches no child of the node reached so far.
RECURSIVE Walk(_, _, _)
Walk(tree, file, segs) ==
  IF segs = <<>> \/ file = NullFile THEN file
  ELSE Walk(tree, ChildNamed(tree, file, Head(segs)), Tail(segs))

\* The last call was a resolution of a path of which some segment matches
\* no child of the node reached so far.
ResolvedUnmatched ==
  /\ vlast.op = "resolve"
  /\ Walk(nodes, VirtualFile(vlast.node), FileOf(vlast.path)) = NullFile

\* The first segment of the path that was resolved names a child.
FirstMatched ==
  /\ FileOf(vlast.path) # <<>>
  /\ ChildNamed(nodes, VirtualFile(vlast.node), Head(FileOf(vlast.path))) # NullFile

\* C22, as stated: the resolution of a path of which some segment matches
\* no child of the node reached so far returns a dummy, which answers
\* NOT_FOUND to an info query.
C22_DummyWhenUnmatched ==
  ResolvedUnmatched =>
    /\ vlast.result = DummyFile
    /\ g_file_query_info(nodes, fs, vlast.result) = "not-found"

\* C22, amended: the resolution returns a dummy, which answers NOT_FOUND,
\* when a segment matches no child of the virtual node reached so far and
\* either the first segment matched or the directory has no real root; when
\* not even the first segment matches and there is a real root, the path is
\* resolved against the real root.
C22_DummyWhenUnmatchedAmended ==
  ResolvedUnmatched =>
    IF FirstMatched \/ ~nodes[vlast.node].real_root
      THEN /\ vlast.result = DummyFile
           /\ g_file_query_info(nodes, fs, vlast.result) = "not-found"
      ELSE vlast.result = RealFile(FileOf(vlast.path))

\* A path whose first segment names a child of a root with a real root, and
\* whose second names no child of that child, has been resolved to a dummy.
C22_Witness ==
  /\ ResolvedUnmatched
  /\ FirstMatched
  /\ nodes[vlast.node].real_root
  /\ vlast.result = DummyFile

\* C23: when the first segment of a path resolved from the root names a
\* virtual child, the result is what the walk through the children gives (a
\* dummy where the walk ends early), whatever the real root holds.
C23_VirtualShadowsReal ==
  ( /\ vlast.op = "resolve"
    /\ is_root(nodes[vlast.node])
    /\ FirstMatched
    /\ ChildNamed(nodes, VirtualFile(vlast.node), Head(FileOf(vlast.path))).kind
         = "virtual" )
  => vlast.result =
       IF Walk(nodes, VirtualFile(vlast.node), FileOf(vlast.path)) = NullFile
         THEN DummyFile
         ELSE Walk(nodes, VirtualFile(vlast.node), FileOf(vlast.path))

\* The root has a real root that holds b and b/b, and a virtual child b
\* without children: b/b has been resolved from the root, to a dummy.
C23_Witness ==
  /\ vlast.op = "resolve"
  /\ vlast.node = 1
  /\ nodes[1].real_root
  /\ vlast.path = <<"b", "/", "b">>
  /\ fs[FileOf(<<"b">>)] = "dir"
  /\ fs[FileOf(vlast.path)] = "file"
  /\ ChildNamed(nodes, VirtualFile(1), <<"b">>).kind = "virtual"
  /\ vlast.result = DummyFile

\* ------------------------------------------------------------ C24 and C25
\* C24: once the last reference to the root has been dropped, every other
\* object of the tree that is still referenced from outside the tree is a
\* dummy, which answers NOT_FOUND to an info query, and every other object
\* has been freed.
C24_OrphansAreDummies ==
  nodes[1].state = "freed" =>
    \A n \in NodeIds \ {1} :
      nodes[n].state = "live" =>
        /\ Held(nodes, n)
        /\ phodav_virtual_dir_query_info(nodes, fs, VirtualFile(n)) = "not-found"

\* C25: while the tree exists, exactly one of its objects has the path "/".
C25_OneRoot ==
  nodes[1].state = "live" =>
    Cardinality({ n \in NodeIds : nodes[n].state = "live" /\ is_root(nodes[n]) }) = 1

\* ------------------------------------------------------------------- C26
\* The registry holds one lock: a lock on /a, with that token.
OnlyLockIsOnA(reg, token) ==
  /\ Len(reg[PathA]) = 1
  /\ reg[PathA][1].token = token
  /\ \A k \in Keys \ {PathA} : reg[k] = <<>>

\* C26: a PUT, DELETE, MKCOL or PROPPATCH of /a/b whose untagged If header
\* submits the token of the lock held on /a, the only lock there is, passes
\* the precondition check: neither the check nor the request is answered
\* 423.
C26_AncestorTokenPasses ==
  [][ \A t \in IssuedTokens :
        ( /\ last'.method \in {"PUT", "DELETE", "MKCOL", "PROPPATCH"}
          /\ last'.path = <<"/", "a", "/", "b">>
          /\ IfChecked(last')
          /\ last'.hdr.present /\ ~last'.hdr.tagged /\ Submits(last', t)
          /\ OnlyLockIsOnA(paths, t) )
        => (last'.ifStatus # 423 /\ last'.status # 423) ]_vars

\* ------------------------------------------------------------------- C27
\* The pairs of the <token> conditions of the If header of r, each with the
\* path its condition is bound to.
VisitedTokens(r) ==
  { lock_submitted_new(BoundPath(r, r.hdr.groups[g[1]]),
                       r.hdr.groups[g[1]].lists[g[2]][g[3]].val) :
      g \in { x \in (1..MaxLists) \X (1..MaxLists) \X (1..MaxConds) :
                /\ x[1] <= Len(r.hdr.groups)
                /\ x[2] <= Len(r.hdr.groups[x[1]].lists)
                /\ x[3] <= Len(r.hdr.groups[x[1]].lists[x[2]])
                /\ r.hdr.groups[x[1]].lists[x[2]][x[3]].kind = "token" } }

\* The pairs the evaluation of the If header of r leaves in the IfState.
SubmittedBy(reg, tree, r) ==
  { eval_if(reg, tree, [path |-> r.path, locks |-> <<>>], r.hdr).st.locks[i] :
      i \in 1..Len(eval_if(reg, tree, [path |-> r.path, locks |-> <<>>], r.hdr).st.locks) }

\* An entry of the walk for the path holds a lock that is none of the pairs.
NotAmong(reg, path, pairs) ==
  \E i \in 1..Len(ParentKeys(path)) :
    \E j \in 1..Len(reg[ParentKeys(path)[i]]) :
      [path  |-> reg[ParentKeys(path)[i]][j].path,
       token |-> reg[ParentKeys(path)[i]][j].token] \notin pairs

\* C27: the evaluation of an If header submits the pair of every <token> of
\* the header, also of those in a condition or a list that is false; and
\* when the header evaluates true, the check for locks the caller does not
\* hold answers 423 exactly when a lock is none of all these pairs.
C27_AllTokensSubmitted ==
  [][ (IfChecked(last') /\ last'.hdr.present) =>
        /\ SubmittedBy(paths, fs, last') = VisitedTokens(last')
        /\ (last'.ifStatus # 412 /\ last'.method # "COPY") =>
             (last'.ifStatus = 423 <=>
                NotAmong(paths, last'.path, VisitedTokens(last'))) ]_vars

\* C27, its case: a PROPPATCH passed the check with a header of two lists,
\* and a lock on its path is submitted only by a <token> of the list that
\* is false.
C27_Witness ==
  /\ last.method = "PROPPATCH" /\ IfChecked(last) /\ last.ifStatus = 200
  /\ last.hdr.present /\ ~last.hdr.tagged
  /\ Len(last.hdr.groups[1].lists) = 2
  /\ \E l \in 1..2 :
       /\ ~ListHolds(paths, fs, last.path, last.hdr.groups[1].lists[l])
       /\ ListHolds(paths, fs, last.path, last.hdr.groups[1].lists[3 - l])
       /\ \E c \in 1..Len(last.hdr.groups[1].lists[l]) :
            /\ last.hdr.groups[1].lists[l][c].kind = "token"
            /\ HoldsToken(paths, PathKey(last.path), last.hdr.groups[1].lists[l][c].val)
            /\ \A d \in 1..Len(last.hdr.groups[1].lists[3 - l]) :
                 last.hdr.groups[1].lists[3 - l][d].val
                   # last.hdr.groups[1].lists[l][c].val

\* ------------------------------------------------------------------- C28
\* The key of the first n of the segments: "/" and the segments joined by "/".
RECURSIVE JoinedKey(_, _)
JoinedKey(segs, n) ==
  IF n = 0 THEN <<>>
  ELSE JoinedKey(segs, n - 1) \o <<"/">> \o segs[n]

\* The registry entries of "/", "/a", "/a/b", ... for a path, root first and
\* target last, empty segments discarded.  get_path files "/" under the key
\* that is left when its trailing slashes are removed.
AncestorEntries(path) ==
  <<PathKey(<<"/">>)>> \o
    [i \in 1..Len(FileOf(path)) |-> JoinedKey(FileOf(path), i)]

\* The first entry of a list of keys on which check_lock refuses a lock of
\* the scope (0: there is none).
FirstRefusal(reg, keys, scope) ==
  IF \A i \in 1..Len(keys) : check_lock(reg[keys[i]], [scope |-> scope])
    THEN 0
    ELSE CHOOSE i \in 1..Len(keys) :
           /\ ~check_lock(reg[keys[i]], [scope |-> scope])
           /\ \A j \in 1..(i - 1) : check_lock(reg[keys[j]], [scope |-> scope])

\* C28: the walk for a path /a/b/... consults the registry entries of "/",
\* "/a", "/a/b", ... in that order, empty segments discarded, and stops at
\* the first entry the callback refuses: a LOCK that makes a new lock is
\* refused exactly when check_lock refuses one of these entries.
C28_AncestorWalk ==
  [][ NewLockStep =>
        /\ \A i \in 1..Len(AncestorEntries(last'.path)) :
             AncestorEntries(last'.path)[i] \in Keys
        /\ (last'.status = 423 <=>
              FirstRefusal(paths, AncestorEntries(last'.path), last'.scope) # 0) ]_vars

\* ------------------------------------------------------------------- C29
\* The entry holds an exclusive lock.
EntryExclusive(reg, key) ==
  \E i \in 1..Len(reg[key]) : reg[key][i].scope = ScopeExclusive

\* C29: in every state reached through LOCK and UNLOCK, no path holds an
\* exclusive lock while one of its ancestors or one of its descendants holds
\* a lock, whichever of the two was locked first.
C29_NoNestedExclusive ==
  \A k \in Keys : \A d \in Keys :
    ( /\ FileOf(d) # FileOf(k)
      /\ IsUnder(FileOf(d), FileOf(k))
      /\ paths[k] # <<>> /\ paths[d] # <<>> )
      => (~EntryExclusive(paths, k) /\ ~EntryExclusive(paths, d))

\* ------------------------------------------------------------------- C30
\* No list of the registry holds the lock.
NotListed(reg, lock) ==
  \A k \in Keys : \A i \in 1..Len(reg[k]) : reg[k][i] # lock

\* The lock is in the list of the entry of the key, once, and in no other.
ListedOnlyAt(reg, lock, key) ==
  \E i \in 1..Len(reg[key]) :
    /\ reg[key][i] = lock
    /\ \A k \in Keys : \A j \in 1..Len(reg[k]) :
         reg[k][j] = lock => (k = key /\ j = i)

\* Every lock of the registry is listed once, in the entry it references.
AllListedOnce(reg) ==
  \A k \in Keys : \A i \in 1..Len(reg[k]) :
    ListedOnlyAt(reg, reg[k][i], reg[k][i].path)

\* The lock dav_lock_new returned in the LOCK request r.
NewLockOf(r) == dav_lock_new(get_path(r.path), r.token, r.scope, r.depth)

\* C30: every lock is, from the moment dav_lock_new returns it (the
\* registry is then still the one the request found) until dav_lock_free, a
\* member of the lock list of exactly one registry entry, the entry of the
\* path it was created for.
C30_ListedFromNew ==
  [][ /\ NewLockStep =>
           /\ ListedOnlyAt(paths, NewLockOf(last'), get_path(last'.path))
           /\ last'.status # 423 =>
                ListedOnlyAt(paths', NewLockOf(last'), get_path(last'.path))
      /\ AllListedOnce(paths') ]_vars

\* C30, amended: every lock is, from the moment try_add_lock attached it
\* until dav_lock_free, a member of the lock list of exactly one registry
\* entry, the entry of the path it was created for; a lock that try_add_lock
\* refuses is never in a list, and an unlocked lock is in none any more.
C30_ListedFromAdd ==
  [][ /\ NewLockStep =>
           /\ NotListed(paths, NewLockOf(last'))
           /\ IF last'.status # 423
                THEN ListedOnlyAt(paths', NewLockOf(last'), get_path(last'.path))
                ELSE NotListed(paths', NewLockOf(last'))
      /\ (last'.method = "UNLOCK" /\ last'.status = 204) =>
           \A k \in Keys : ~HoldsToken(paths', k, last'.token)
      /\ AllListedOnce(paths') ]_vars

\* C30, its case: the second LOCK made a lock on a path written with a
\* doubled slash and attached it while the first lock is still held.
C30_Witness ==
  /\ last.method = "LOCK" /\ last.token = TokenOf(2) /\ last.status # 423
  /\ last.path = <<"/", "a", "/", "/", "b">>
  /\ ListedOnlyAt(paths, NewLockOf(last), get_path(last.path))
  /\ \E k \in Keys \ {get_path(last.path)} : HoldsToken(paths, k, TokenOf(1))

\* ------------------------------------------------------------------- C31
\* C31: a LOCK request answered 400 or 423 leaves the locks of the registry
\* as they were before the request.
C31_FailedLockKeepsLocks ==
  [][ (last'.method = "LOCK" /\ last'.status \in {400, 423})
        => paths' = paths ]_vars

\* ------------------------------------------------------------------- C32
\* C32: a LOCK request whose <lockinfo> has no <lockscope>, or a <lockscope>
\* that is neither exclusive nor shared, is answered 400 and makes no lock.
C32_BadScopeRefused ==
  [][ ( /\ last'.method = "LOCK" /\ ~readonly /\ alive'
        /\ last'.body \in {"noscope", ScopeNone} )
        => (last'.status = 400 /\ paths' = paths) ]_vars

\* ------------------------------------------------------------------- C33
\* The body of the MKCOL or PROPPATCH request r is one the handler refuses.
BadBody(r) ==
  \/ r.method = "MKCOL" /\ r.body = "body"
  \/ r.method = "PROPPATCH" /\ r.body = "unparsable"

\* What the If precondition check answers for the request r.
Precondition(reg, tree, r) == phodav_check_if(reg, tree, r.method, r.path, r.hdr).status

C34_DepthOneRejected ==
  [][ (last'.method \in {"MOVE", "COPY"} /\ last'.depth = "1")
        => (last'.status \notin {201, 204} /\ fs' = fs) ]_vars

\* ------------------------------------------------------ lock timeouts: spec
\* The clock stops at MaxTime.
MaxTime == 3

TimeoutHeaders == {"", "Second-1", "Second-2"}

TimeoutPaths == { <<"/", "a">>, <<"/", "a", "/", "b">> }

\* A second passes.
Tick ==
  /\ now < MaxTime
  /\ now' = now + 1
  /\ UNCHANGED <<davVars, muxVars, vdVars, lock_timeout>>

TimeoutLockRequest ==
  \E p \in TimeoutPaths, t \in TimeoutHeaders :
    Lock(p, "0", t, ScopeExclusive, "absent")

TimeoutRefreshRequest ==
  \E p \in TimeoutPaths, h \in IssuedTokens, t \in TimeoutHeaders :
    Lock(p, "0", t, "empty", h)

TimeoutProppatchRequest ==
  \E p \in TimeoutPaths : Proppatch(p, "propertyupdate", OneSet, ifHeader)

NextTimeout ==
  \/ Tick
  \/ TimeoutLockRequest
  \/ TimeoutRefreshRequest
  \/ TimeoutProppatchRequest

\* A client that sends no If header, or the token of the first lock.
TimeoutInit ==
  /\ DavStart({NoIf, Untagged(<< <<TokenCond(FALSE, TokenOf(1))>> >>)}, {FALSE})
  /\ MuxStart({"bin"})
  /\ VdStart /\ ClockStart

SpecTimeout == TimeoutInit /\ [][NextTimeout]_vars

\* ------------------------------------------------------------------- C35
\* The timeout of the lock has elapsed: its expiry time is not 0 and lies in
\* the past.
Elapsed(field, clock, lock) ==
  field[lock.token] # 0 /\ field[lock.token] < clock

\* The timeout of every lock on the entries of the walk for the path has
\* elapsed, and there is such a lock.
OnlyElapsedLocks(reg, field, clock, path) ==
  /\ \E i \in 1..Len(ParentKeys(path)) : reg[ParentKeys(path)[i]] # <<>>
  /\ \A i \in 1..Len(ParentKeys(path)) :
       \A j \in 1..Len(reg[ParentKeys(path)[i]]) :
         Elapsed(field, clock, reg[ParentKeys(path)[i]][j])

\* C35: a lock whose timeout has elapsed is no longer treated as held: a
\* request without an If header on a path whose only locks have elapsed is
\* not answered 423, and a header that is one <token> naming such a lock is
\* answered 412.
C35_ElapsedLockNotHeld ==
  [][ ( /\ last'.method = "PROPPATCH" /\ IfChecked(last')
        /\ OnlyElapsedLocks(paths, lock_timeout, now, last'.path) )
        => IF last'.hdr.present THEN last'.ifStatus = 412
           ELSE last'.ifStatus # 423 ]_vars

\* ------------------------------------------------------------------- C36
\* C36: the elements of the output queue are written in the order they were
\* pushed (a push appends, a write takes the head), and the completion
\* callback of an element runs after its write-all has returned and before
\* its flush is issued, with the write error if there was one: the flush is
\* issued in the step of the write, and only when the write did not fail.
C36_QueueOrder ==
  [][ /\ Len(mux_queue') > Len(mux_queue) =>
           SubSeq(mux_queue', 1, Len(mux_queue)) = mux_queue
      /\ Len(mux_queue') < Len(mux_queue) =>
           /\ mux_queue' = Tail(mux_queue)
           /\ ~flushing
           /\ running' =>
                /\ Len(transport') - Len(transport)
                     <= Len(ElemBytes(clients, Head(mux_queue)))
                /\ transport' = transport \o
                     SubSeq(ElemBytes(clients, Head(mux_queue)), 1,
                            Len(transport') - Len(transport))
                /\ ~clients[Head(mux_queue).client].freed =>
                     clients' = PushedCb(variant, clients, Head(mux_queue),
                                  Len(transport') - Len(transport)
                                    < Len(ElemBytes(clients, Head(mux_queue))))
                /\ flushing' <=>
                     (Len(transport') - Len(transport)
                        = Len(ElemBytes(clients, Head(mux_queue))))
                /\ outstanding'.flush =
                     outstanding.flush + (IF flushing' THEN 1 ELSE 0) ]_vars

\* C36, its case: the element of one client has been written and its
\* callback has made the client read again, while an element that was pushed
\* after it waits in the queue.
C36_Witness ==
  /\ running /\ mux_queue # <<>> /\ transport # <<>>
  /\ \E c \in ClientIds :
       /\ clients[c].st = "reading" /\ accepted[c] # <<>>
       /\ \A i \in 1..Len(mux_queue) : mux_queue[i].client # c

\* --------------------------------------------- output queue: fair scheduling
\* The daemon without its demultiplexer: clients connect and are read, the
\* queue writes to the transport.
NextQueue ==
  \/ \E c \in ClientIds : incoming_callback(c)
  \/ \E c \in ClientIds, n \in 0..MaxBytes, error \in BOOLEAN :
       client_read_cb(c, n, error)
  \/ \E written \in 0..(10 + MaxBytes), crash \in BOOLEAN :
       output_queue_idle(written, crash)
  \/ output_queue_flush_cb

\* The main loop dispatches every idle source and every completed flush; it
\* owes nothing to the clients, which may never send again.
SpecQueueFair ==
  /\ MuxInit
  /\ [][NextQueue]_vars
  /\ WF_vars(\E written \in 0..(10 + MaxBytes), crash \in BOOLEAN :
               output_queue_idle(written, crash))
  /\ WF_vars(output_queue_flush_cb)

\* ------------------------------------------------------------------- C37
\* An element of the client waits in the output queue.
InQueue(c) == \E i \in 1..Len(mux_queue) : mux_queue[i].client = c

\* C37: every element pushed to the output queue is eventually taken off it,
\* written and its callback invoked, as long as the daemon runs, without a
\* further push, also when the write of an earlier element failed.
C37_EventuallyWritten ==
  \A c \in ClientIds : (running /\ InQueue(c)) ~> (~InQueue(c) \/ ~running)

\* ------------------------------------------------------------------- C38
\* The step is the callback of a write to a local client that failed.
ClientWriteFailed ==
  /\ demux.phase = "write"
  /\ demux'.writes = demux.writes - 1
  /\ failures' = failures + 1

\* C38: an error while writing the payload of a frame to a local client does
\* not stop demultiplexing: the callback of the write starts the read of the
\* header of the next frame.
C38_WriteErrorKeepsDemux ==
  [][ ClientWriteFailed =>
        (demux'.phase = "client" /\ demux'.reads = demux.reads + 1) ]_vars

\* ------------------------------------------------------------------- C39
\* C39: no completion callback accesses a Client record that has been freed:
\* a Client with a pending read of its socket is not freed, and no element
\* that waits in the output queue, whose write and whose callback use the
\* buffers and the record of its Client, belongs to a Client that is freed.
C39_NoUseAfterFree ==
  /\ \A c \in ClientIds : clients[c].st = "reading" => ~clients[c].freed
  /\ \A i \in 1..Len(mux_queue) : ~clients[mux_queue[i].client].freed

\* ------------------------------------------------------------------- C40
\* C40: a DELETE on a virtual directory that is answered 403 deletes
\* nothing: every real file and directory beneath a real child grafted into
\* the tree that existed before the request exists after it.
C40_ForbiddenDeleteKeepsFiles ==
  [][ ( /\ last'.method = "DELETE" /\ last'.status = 403
        /\ PHODAV_IS_VIRTUAL_DIR(HandlerFile(nodes, last'.path)) )
        => \A f \in DOMAIN fs :
             (fs[f] # "none" /\ \E g \in GraftedFiles(nodes) : IsUnder(f, g))
               => fs'[f] # "none" ]_vars

====
